---- MODULE Spec2Model ----
(***************************************************************************)
(* Model of the local text-analysis engine of the corpus workbench         *)
(* (src/utils/nlp.ts): the normalizer cleanCorpusText, the tokenizer, the  *)
(* frequency engine, the n-gram generator, the KWIC concordancer and the   *)
(* sentiment scorer and the type/token ratio; of the POS aggregator and   *)
(* the n-gram table of the analysis view; of the AI manager's cache and    *)
(* provider cascade; and of the ways a document comes into the document    *)
(* set of the application, one handler at a time and concurrently.         *)
(*                                                                         *)
(* A JavaScript string is modelled as a sequence of one-character strings  *)
(* (UTF-16 code units); positions in the source are 0-based, positions in  *)
(* a TLA+ sequence 1-based, so source position p is sequence index p + 1.  *)
(***************************************************************************)
EXTENDS Integers, Sequences, FiniteSets, TLC

VARIABLES
    pc,               \* which operation is in progress, and where in it
    rawText,          \* cleanCorpusText: the raw text handed to the first pass
    cleanOut,         \* cleanCorpusText: the outputs of the successive passes
    text,             \* tokenize: its text
    lang,             \* tokenize: its language
    removeStopwords,  \* tokenize, calculateFrequencies: the stopword switch
    tokens,           \* tokenize: the tokens returned
    docs,             \* calculateFrequencies, generateKwic: the document set
    frequencies,      \* calculateFrequencies: the table returned
    keyword,          \* generateKwic: the keyword
    windowSize,       \* generateKwic: the window radius
    results,          \* generateKwic: the results pushed so far
    matches,          \* generateKwic: document and position of each result pushed
    docIdx,           \* generateKwic: the document forEach is at (1-based)
    startIndex,       \* generateKwic: where the next indexOf starts
    index,            \* generateKwic: the position indexOf returned
    sentiment,        \* analyzeSentiment: the result returned
    ngramSize,        \* generateNgrams: n
    ngrams,           \* generateNgrams: the table returned
    selectedSource,   \* analysis view: the source filter
    aggregatedPosData,\* analysis view: the aggregated POS breakdown
    documents,        \* application: the document set (state of App)
    typeTokenRatio,   \* calculateTypeTokenRatio: the ratio returned
    hasApiKey,        \* AI manager: whether a Gemini client was made
    responseCache,    \* AI manager: RESPONSE_CACHE, entries in insertion order
    calls,            \* AI manager: the calls of generate made so far
    inFlight,         \* application: the handler calls waiting at an await
    ops,              \* application: the handler calls made, in call order
    removed,          \* application: the documents deletions took out of the set
    sortEngine,       \* the engine: which order its sort leaves under an inconsistent comparator
    callLog           \* the calls of core operations made so far, with their results

cleanVars == <<rawText, cleanOut>>
tokVars == <<text, lang, tokens>>
freqVars == <<frequencies>>
kwicVars == <<keyword, windowSize, results, matches, docIdx, startIndex, index>>
sentVars == <<sentiment>>
ngramVars == <<ngramSize, ngrams>>
posVars == <<selectedSource, aggregatedPosData>>
appVars == <<documents>>
ttrVars == <<typeTokenRatio>>
aiVars == <<hasApiKey, responseCache, calls>>
ingestVars == <<inFlight, ops, removed>>
pureVars == <<sortEngine, callLog>>
lateVars == <<ttrVars, aiVars, ingestVars, pureVars>>
extVars == <<sentVars, ngramVars, posVars, appVars, lateVars>>
vars == <<pc, docs, removeStopwords, cleanVars, tokVars, freqVars, kwicVars, extVars>>

(***************************************************************************)
(* Characters                                                              *)
(***************************************************************************)
NL == "\n"
TAB == "\t"

\* ECMAScript LineTerminator characters among those the model uses.
LineTerminators == {"\n", "\r"}

\* ECMAScript \s (WhiteSpace and LineTerminator) among those the model uses.
WhiteSpace == {" ", "\t", "\n", "\r", "\f"}

IsSpace(c) == c \in WhiteSpace
IsLineTerminator(c) == c \in LineTerminators

UpperCase == <<"A","B","C","D","E","F","G","H","I","J","K","L","M",
               "N","O","P","Q","R","S","T","U","V","W","X","Y","Z">>
LowerCase == <<"a","b","c","d","e","f","g","h","i","j","k","l","m",
               "n","o","p","q","r","s","t","u","v","w","x","y","z">>

\* String.prototype.toLowerCase on one code unit (ASCII letters).
ToLowerChar(c) ==
    IF \E k \in 1..Len(UpperCase) : UpperCase[k] = c
    THEN LowerCase[CHOOSE k \in 1..Len(UpperCase) : UpperCase[k] = c]
    ELSE c

toLowerCase(s) == [k \in 1..Len(s) |-> ToLowerChar(s[k])]

\* Whether pattern p occurs in s at index i, ignoring case (the i flag).
MatchAtNoCase(s, i, p) ==
    /\ i + Len(p) - 1 <= Len(s)
    /\ \A k \in 1..Len(p) : ToLowerChar(s[i + k - 1]) = ToLowerChar(p[k])

\* ^ under the m flag: at the start of the input or right after a line terminator.
AtLineStart(s, i) == i = 1 \/ IsLineTerminator(s[i - 1])

\* The index of the first line terminator at or after i, Len(s) + 1 if none:
\* where a greedy .* or .+ started at i stops.
RECURSIVE LineEnd(_, _)
LineEnd(s, i) ==
    IF i > Len(s) \/ IsLineTerminator(s[i]) THEN i ELSE LineEnd(s, i + 1)

\* The number of consecutive characters of the set cs in s from index i on.
RECURSIVE RunLength(_, _, _)
RunLength(s, i, cs) ==
    IF i > Len(s) \/ s[i] \notin cs THEN 0 ELSE 1 + RunLength(s, i + 1, cs)

(***************************************************************************)
(* cleanCorpusText: nine steps, each a global regular-expression replace   *)
(* scanning left to right, the next search starting where a match ended.   *)
(***************************************************************************)

\* .replace(/\*\*/g, '')
RECURSIVE RemoveBoldFrom(_, _)
RemoveBoldFrom(s, i) ==
    IF i > Len(s) THEN <<>>
    ELSE IF i < Len(s) /\ s[i] = "*" /\ s[i + 1] = "*"
         THEN RemoveBoldFrom(s, i + 2)
         ELSE <<s[i]>> \o RemoveBoldFrom(s, i + 1)

RemoveBold(s) == RemoveBoldFrom(s, 1)

\* .replace(/#{1,6}\s/g, '')
RECURSIVE RemoveHeadingsFrom(_, _)
RemoveHeadingsFrom(s, i) ==
    IF i > Len(s) THEN <<>>
    ELSE LET k == RunLength(s, i, {"#"})
         IN  IF k >= 1 /\ k <= 6 /\ i + k <= Len(s) /\ IsSpace(s[i + k])
             THEN RemoveHeadingsFrom(s, i + k + 1)
             ELSE <<s[i]>> \o RemoveHeadingsFrom(s, i + 1)

RemoveHeadings(s) == RemoveHeadingsFrom(s, 1)

MetaPrefixes ==
    { <<"T","i","t","l","e",":">>,
      <<"S","u","b","j","e","c","t",":">>,
      <<"H","e","r","e"," ","i","s"," ","a"," ","t","e","x","t">>,
      <<"V","i","d","e","o",":">>,
      <<"A","s","s","i","g","n","m","e","n","t",":">>,
      <<"S","t","u","d","e","n","t",":">>,
      <<"D","a","t","e",":">>,
      <<"I","n","s","t","r","u","c","t","i","o","n",":">> }

\* .replace(/^(Title:|...|Instruction:).+$/gim, ''): a line that starts with a
\* prefix followed by at least one character loses everything but its terminator.
RECURSIVE RemoveMetaFrom(_, _)
RemoveMetaFrom(s, i) ==
    IF i > Len(s) THEN <<>>
    ELSE IF /\ AtLineStart(s, i)
            /\ \E p \in MetaPrefixes :
                  /\ MatchAtNoCase(s, i, p)
                  /\ i + Len(p) <= Len(s)
                  /\ ~IsLineTerminator(s[i + Len(p)])
         THEN RemoveMetaFrom(s, LineEnd(s, i))
         ELSE <<s[i]>> \o RemoveMetaFrom(s, i + 1)

RemoveMeta(s) == RemoveMetaFrom(s, 1)

PromptPhrases ==
    { <<"W","r","i","t","e"," ","a"," ">>,
      <<"H","e","r","e"," ","i","s"," ","t","h","e"," ">>,
      <<"P","l","e","a","s","e"," ","g","e","n","e","r","a","t","e"," ">> }

\* .replace(/(Write a .*|Here is the .*|Please generate .*)/gi, '')
RECURSIVE RemovePromptsFrom(_, _)
RemovePromptsFrom(s, i) ==
    IF i > Len(s) THEN <<>>
    ELSE IF \E p \in PromptPhrases : MatchAtNoCase(s, i, p)
         THEN RemovePromptsFrom(s, LineEnd(s, i))
         ELSE <<s[i]>> \o RemovePromptsFrom(s, i + 1)

RemovePrompts(s) == RemovePromptsFrom(s, 1)

\* The index of the first "]" after i on the same line, 0 if there is none.
RECURSIVE CloseBracket(_, _)
CloseBracket(s, j) ==
    IF j > Len(s) \/ IsLineTerminator(s[j]) THEN 0
    ELSE IF s[j] = "]" THEN j
    ELSE CloseBracket(s, j + 1)

\* .replace(/\[.*?\]/g, '')
RECURSIVE RemovePlaceholdersFrom(_, _)
RemovePlaceholdersFrom(s, i) ==
    IF i > Len(s) THEN <<>>
    ELSE IF s[i] = "[" /\ CloseBracket(s, i + 1) # 0
         THEN RemovePlaceholdersFrom(s, CloseBracket(s, i + 1) + 1)
         ELSE <<s[i]>> \o RemovePlaceholdersFrom(s, i + 1)

RemovePlaceholders(s) == RemovePlaceholdersFrom(s, 1)

\* .replace(/_+/g, '')
RemoveUnderscores(s) == SelectSeq(s, LAMBDA c : c # "_")

\* .replace(/^\s*[-*]\s+/gm, ''): at a line start, any white space (line breaks
\* included), one bullet character, and all the white space after it (one at least).
RECURSIVE RemoveBulletsFrom(_, _)
RemoveBulletsFrom(s, i) ==
    IF i > Len(s) THEN <<>>
    ELSE LET b == i + RunLength(s, i, WhiteSpace)
             w == RunLength(s, b + 1, WhiteSpace)
         IN  IF /\ AtLineStart(s, i)
                /\ b <= Len(s)
                /\ s[b] \in {"-", "*"}
                /\ w >= 1
             THEN RemoveBulletsFrom(s, b + 1 + w)
             ELSE <<s[i]>> \o RemoveBulletsFrom(s, i + 1)

RemoveBullets(s) == RemoveBulletsFrom(s, 1)

\* .replace(/\n{3,}/g, '\n\n')
RECURSIVE CollapseNewlinesFrom(_, _)
CollapseNewlinesFrom(s, i) ==
    IF i > Len(s) THEN <<>>
    ELSE LET k == RunLength(s, i, {NL})
         IN  IF k >= 3
             THEN <<NL, NL>> \o CollapseNewlinesFrom(s, i + k)
             ELSE <<s[i]>> \o CollapseNewlinesFrom(s, i + 1)

CollapseNewlines(s) == CollapseNewlinesFrom(s, 1)

\* String.prototype.trim
RECURSIVE TrimEnd(_)
TrimEnd(s) ==
    IF s = <<>> \/ ~IsSpace(s[Len(s)]) THEN s ELSE TrimEnd(SubSeq(s, 1, Len(s) - 1))

trim(s) == TrimEnd(SubSeq(s, RunLength(s, 1, WhiteSpace) + 1, Len(s)))

cleanCorpusText(s) ==
    trim(CollapseNewlines(RemoveBullets(RemoveUnderscores(RemovePlaceholders(
        RemovePrompts(RemoveMeta(RemoveHeadings(RemoveBold(s)))))))))

(***************************************************************************)
(* tokenize                                                                *)
(***************************************************************************)
\* Language (src/types.ts)
ENGLISH == "EN"
SPANISH == "ES"
UNKNOWN == "UNK"
Languages == {ENGLISH, SPANISH, UNKNOWN}

STOPWORDS_EN ==
    { <<"t","h","e">>, <<"b","e">>, <<"t","o">>, <<"o","f">>, <<"a","n","d">>, <<"a">>,
      <<"i","n">>, <<"t","h","a","t">>, <<"h","a","v","e">>, <<"i">>, <<"i","t">>,
      <<"f","o","r">>, <<"n","o","t">>, <<"o","n">>, <<"w","i","t","h">>, <<"h","e">>,
      <<"a","s">>, <<"y","o","u">>, <<"d","o">>, <<"a","t">>, <<"t","h","i","s">>,
      <<"b","u","t">>, <<"h","i","s">>, <<"b","y">>, <<"f","r","o","m">>, <<"t","h","e","y">>,
      <<"w","e">>, <<"s","a","y">>, <<"h","e","r">>, <<"s","h","e">>, <<"o","r">>, <<"a","n">>,
      <<"w","i","l","l">>, <<"m","y">>, <<"o","n","e">>, <<"a","l","l">>,
      <<"w","o","u","l","d">>, <<"t","h","e","r","e">>, <<"t","h","e","i","r">>,
      <<"w","h","a","t">>, <<"s","o">>, <<"u","p">>, <<"o","u","t">>, <<"i","f">>,
      <<"a","b","o","u","t">>, <<"w","h","o">>, <<"g","e","t">>, <<"w","h","i","c","h">>,
      <<"g","o">>, <<"m","e">> }

STOPWORDS_ES ==
    { <<"d","e">>, <<"l","a">>, <<"q","u","e">>, <<"e","l">>, <<"e","n">>, <<"y">>, <<"a">>,
      <<"l","o","s">>, <<"d","e","l">>, <<"s","e">>, <<"l","a","s">>, <<"p","o","r">>,
      <<"u","n">>, <<"p","a","r","a">>, <<"c","o","n">>, <<"n","o">>, <<"u","n","a">>,
      <<"s","u">>, <<"a","l">>, <<"l","o">>, <<"c","o","m","o">>, <<"m","á","s">>,
      <<"p","e","r","o">>, <<"s","u","s">>, <<"l","e">>, <<"y","a">>, <<"o">>,
      <<"e","s","t","e">>, <<"s","í">>, <<"p","o","r","q","u","e">>, <<"e","s","t","a">>,
      <<"e","n","t","r","e">>, <<"c","u","a","n","d","o">>, <<"m","u","y">>, <<"s","i","n">>,
      <<"s","o","b","r","e">>, <<"t","a","m","b","i","é","n">>, <<"m","e">>,
      <<"h","a","s","t","a">>, <<"h","a","y">>, <<"d","o","n","d","e">>,
      <<"q","u","i","e","n">>, <<"d","e","s","d","e">>, <<"t","o","d","o">>, <<"n","o","s">> }

\* The character class of the tokenizer's first replace ("U+0060" stands
\* for the backtick, "U+201C" and "U+201D" for the curly double quotes).
TokenizerPunctuation ==
    { ".", ",", "/", "#", "!", "$", "%", "^", "&", "*", ";", ":", "{", "}", "=",
      "-", "_", "U+0060", "~", "(", ")", "\"", "U+201C", "U+201D", "«", "»" }

\* .replace(/[.,/#!$%^&*;:{}=\-_...]/g, "")
StripPunctuation(s) == SelectSeq(s, LAMBDA c : c \notin TokenizerPunctuation)

\* .replace(/\s{2,}/g, " "): a run of two or more white-space characters becomes
\* one space; a single white-space character of any kind stays as it is.
\* The scan goes from one match to the next: what lies before the leftmost run at
\* or after i is kept as it is.
RECURSIVE CollapseSpacesFrom(_, _)
CollapseSpacesFrom(s, i) ==
    LET runs == {k \in i..Len(s) : RunLength(s, k, WhiteSpace) >= 2}
    IN  IF runs = {} THEN SubSeq(s, i, Len(s))
        ELSE LET j == CHOOSE k \in runs : \A m \in runs : k <= m
             IN  SubSeq(s, i, j - 1) \o <<" ">>
                 \o CollapseSpacesFrom(s, j + RunLength(s, j, WhiteSpace))

CollapseSpaces(s) == CollapseSpacesFrom(s, 1)

\* String.prototype.split with a one-character separator: the pieces between the
\* separators, empty pieces included.
\* The pieces from index i on: the first ends before the leftmost separator at or
\* after i, or with the string.
RECURSIVE SplitFrom(_, _, _)
SplitFrom(s, sep, i) ==
    LET seps == {k \in i..Len(s) : s[k] = sep}
    IN  IF seps = {} THEN <<SubSeq(s, i, Len(s))>>
        ELSE LET j == CHOOSE k \in seps : \A m \in seps : k <= m
             IN  <<SubSeq(s, i, j - 1)>> \o SplitFrom(s, sep, j + 1)

split(s, sep) == SplitFrom(s, sep, 1)

StopwordSetEnglishOnly(lng) == STOPWORDS_EN

StopwordSet(lng) == IF lng = SPANISH THEN STOPWORDS_ES ELSE STOPWORDS_EN

tokenize(txt, removeStop, lng) ==
    LET all == SelectSeq(split(CollapseSpaces(StripPunctuation(toLowerCase(txt))), " "),
                         LAMBDA t : Len(t) > 0)
    IN  IF removeStop
        THEN SelectSeq(all, LAMBDA t : t \notin StopwordSet(lng))
        ELSE all

(***************************************************************************)
(* calculateFrequencies                                                    *)
(*                                                                         *)
(* frequencyMap is a plain JavaScript object ({}): a read of a key that is *)
(* not an own property goes on to Object.prototype, and Object.entries     *)
(* lists the own keys that are array indices first, in ascending numeric   *)
(* order, and the other keys after them in the order they were created.    *)
(* The object is modelled by its own properties in creation order.         *)
(***************************************************************************)

\* JavaScript values met in frequencyMap. The string is the text of a native
\* function, "function Object() { [native code] }", followed by n characters "1".
JsUndefined == [type |-> "undefined", n |-> 0]
JsFunction == [type |-> "function", n |-> 0]
JsNumber(k) == [type |-> "number", n |-> k]
JsString(k) == [type |-> "string", n |-> k]

IsNumber(v) == v.type = "number"

\* The properties a plain object inherits whose names have neither an underscore nor
\* another character the tokenizer removes (the others can never be a token).
ObjectPrototypeKeys ==
    { <<"c","o","n","s","t","r","u","c","t","o","r">>,
      <<"t","o","S","t","r","i","n","g">>,
      <<"v","a","l","u","e","O","f">>,
      <<"h","a","s","O","w","n","P","r","o","p","e","r","t","y">>,
      <<"i","s","P","r","o","t","o","t","y","p","e","O","f">>,
      <<"t","o","L","o","c","a","l","e","S","t","r","i","n","g">>,
      <<"p","r","o","p","e","r","t","y","I","s","E","n","u","m","e","r","a","b","l","e">> }

HasOwn(map, key) == \E k \in 1..Len(map) : map[k].key = key

\* frequencyMap[key]
GetProperty(map, key) ==
    IF HasOwn(map, key)
    THEN map[CHOOSE k \in 1..Len(map) : map[k].key = key].value
    ELSE IF key \in ObjectPrototypeKeys THEN JsFunction ELSE JsUndefined

\* frequencyMap[key] = value
SetProperty(map, key, value) ==
    IF HasOwn(map, key)
    THEN [k \in 1..Len(map) |->
            IF map[k].key = key THEN [key |-> key, value |-> value] ELSE map[k]]
    ELSE Append(map, [key |-> key, value |-> value])

\* (v || 0) + 1: undefined and 0 are falsy; + on a function or a string concatenates.
OrZeroPlusOne(v) ==
    CASE v.type = "undefined" -> JsNumber(1)
      [] v.type = "number"    -> JsNumber(v.n + 1)
      [] v.type = "function"  -> JsString(1)
      [] v.type = "string"    -> JsString(v.n + 1)

\* tokens.forEach(token => { frequencyMap[token] = (frequencyMap[token] || 0) + 1 })
RECURSIVE CountInto(_, _, _)
CountInto(map, toks, i) ==
    IF i > Len(toks) THEN map
    ELSE CountInto(SetProperty(map, toks[i], OrZeroPlusOne(GetProperty(map, toks[i]))),
                   toks, i + 1)

Digits == <<"0","1","2","3","4","5","6","7","8","9">>

IsDigit(c) == \E k \in 1..Len(Digits) : Digits[k] = c

DigitValue(c) == (CHOOSE k \in 1..Len(Digits) : Digits[k] = c) - 1

\* Whether the numeral a is below the numeral b (neither with a leading zero):
\* the shorter one is, and of two of equal length the one with the smaller digit
\* at the first place where they differ.
RECURSIVE NumeralLessFrom(_, _, _)
NumeralLessFrom(a, b, k) ==
    IF k > Len(a) THEN FALSE
    ELSE IF a[k] # b[k] THEN DigitValue(a[k]) < DigitValue(b[k])
    ELSE NumeralLessFrom(a, b, k + 1)

NumeralLess(a, b) ==
    Len(a) < Len(b) \/ (Len(a) = Len(b) /\ NumeralLessFrom(a, b, 1))

\* 2^32 - 1
MaxArrayIndexBound == <<"4","2","9","4","9","6","7","2","9","5">>

\* An array index: a canonical numeric string (no leading zero) below 2^32 - 1.
IsArrayIndex(key) ==
    /\ Len(key) >= 1
    /\ \A k \in 1..Len(key) : IsDigit(key[k])
    /\ (Len(key) = 1 \/ key[1] # "0")
    /\ NumeralLess(key, MaxArrayIndexBound)

\* The array-index properties in ascending numeric order.
RECURSIVE InsertByIndex(_, _)
InsertByIndex(sorted, p) ==
    IF sorted = <<>> THEN <<p>>
    ELSE IF NumeralLess(p.key, sorted[1].key)
         THEN <<p>> \o sorted
         ELSE <<sorted[1]>> \o InsertByIndex(Tail(sorted), p)

RECURSIVE SortByIndex(_)
SortByIndex(ps) ==
    IF ps = <<>> THEN <<>>
    ELSE InsertByIndex(SortByIndex(SubSeq(ps, 1, Len(ps) - 1)), ps[Len(ps)])

\* Object.entries(frequencyMap)
ObjectEntries(map) ==
    SortByIndex(SelectSeq(map, LAMBDA p : IsArrayIndex(p.key)))
    \o SelectSeq(map, LAMBDA p : ~IsArrayIndex(p.key))

\* count / totalTokens, kept as an exact ratio; not a number when count is a string.
Divide(count, total) ==
    IF IsNumber(count) THEN <<"ratio", count.n, total>> ELSE <<"NaN", 0, 0>>

\* The comparator (a, b) => b.count - a.count; a string operand gives NaN.
CompareCount(a, b) ==
    IF IsNumber(a.count) /\ IsNumber(b.count)
    THEN <<"number", b.count.n - a.count.n>>
    ELSE <<"NaN", 0>>

\* Whether the comparator puts b strictly before a (a NaN result counts as 0).
Precedes(b, a) == CompareCount(b, a)[1] = "number" /\ CompareCount(b, a)[2] < 0

\* Array.prototype.sort with a consistent comparator is stable: an entry goes
\* after every entry that does not come strictly after it.
RECURSIVE InsertSorted(_, _)
InsertSorted(sorted, e) ==
    IF sorted = <<>> THEN <<e>>
    ELSE IF Precedes(e, sorted[1])
         THEN <<e>> \o sorted
         ELSE <<sorted[1]>> \o InsertSorted(Tail(sorted), e)

RECURSIVE StableSort(_)
StableSort(es) ==
    IF es = <<>> THEN <<>>
    ELSE InsertSorted(StableSort(SubSeq(es, 1, Len(es) - 1)), es[Len(es)])

\* A comparator is consistent when "compares as equal" is transitive. With a string
\* count every comparison with that entry is NaN, i.e. equal, so the comparator is
\* consistent only if the numeric counts are all equal.
ConsistentComparator(es) ==
    \/ \A k \in 1..Len(es) : IsNumber(es[k].count)
    \/ \A j, k \in 1..Len(es) :
          IsNumber(es[j].count) /\ IsNumber(es[k].count) => es[j].count = es[k].count

\* The results .sort may give: the stable order, or, the comparator being
\* inconsistent, an order the implementation chooses.
SortOutcomes(es) ==
    IF ConsistentComparator(es) THEN {StableSort(es)}
    ELSE {[k \in 1..Len(es) |-> es[p[k]]] : p \in Permutations(1..Len(es))}

RECURSIVE AllTokens(_, _, _)
AllTokens(ds, removeStop, i) ==
    IF i > Len(ds) THEN <<>>
    ELSE tokenize(ds[i].content, removeStop, ds[i].language)
         \o AllTokens(ds, removeStop, i + 1)

\* The entries before the sort: one per own property of frequencyMap.
FrequencyEntries(ds, removeStop) ==
    LET toks == AllTokens(ds, removeStop, 1)
        totalTokens == Len(toks)
        frequencyMap == CountInto(<<>>, toks, 1)
        entries == ObjectEntries(frequencyMap)
    IN  [k \in 1..Len(entries) |->
            [token |-> entries[k].key,
             count |-> entries[k].value,
             frequency |-> IF totalTokens > 0
                           THEN Divide(entries[k].value, totalTokens)
                           ELSE <<"ratio", 0, 1>>]]

calculateFrequencies(ds, removeStop) == SortOutcomes(FrequencyEntries(ds, removeStop))

(***************************************************************************)
(* generateKwic                                                            *)
(***************************************************************************)
DefaultWindowSize == 60

Min(a, b) == IF a < b THEN a ELSE b
Max(a, b) == IF a > b THEN a ELSE b

\* Whether sub occurs in s at source position k.
OccursAt(s, sub, k) ==
    /\ k >= 0
    /\ k + Len(sub) <= Len(s)
    /\ \A j \in 1..Len(sub) : s[k + j] = sub[j]

\* String.prototype.indexOf(sub, from): the first position at or after from (from
\* clamped to the length) where sub occurs, -1 if there is none. The empty string
\* occurs at every position, the end included.
RECURSIVE IndexOfFrom(_, _, _)
IndexOfFrom(s, sub, k) ==
    IF k + Len(sub) > Len(s) THEN -1
    ELSE IF OccursAt(s, sub, k) THEN k
    ELSE IndexOfFrom(s, sub, k + 1)

indexOf(s, sub, from) == IndexOfFrom(s, sub, Min(Max(from, 0), Len(s)))

\* String.prototype.substring(a, b): both ends clamped to the string, swapped if
\* a > b.
substring(s, a, b) ==
    LET ca == Min(Max(a, 0), Len(s))
        cb == Min(Max(b, 0), Len(s))
    IN  SubSeq(s, Min(ca, cb) + 1, Max(ca, cb))

\* The character class of isWordStart: /[\s\.,;:¡!¿?(\["']/
WordStartChars ==
    WhiteSpace \cup {".", ",", ";", ":", "¡", "!", "¿", "?", "(", "[", "\"", "'"}

\* The character class of isWordEnd: /[\s\.,;:¡!¿?)\].'"]/
WordEndChars ==
    WhiteSpace \cup {".", ",", ";", ":", "¡", "!", "¿", "?", ")", "]", "'", "\""}

\* charBefore and charAfter of the match at position idx of lowerText.
CharBefore(lowerText, idx) == IF idx > 0 THEN lowerText[idx] ELSE " "

CharAfter(lowerText, idx, kw) ==
    IF idx + Len(kw) < Len(lowerText) THEN lowerText[idx + Len(kw) + 1] ELSE " "

\* Mutant of isWordStart: one character class used on both sides of the match.
isWordStartUnified(lowerText, idx) == CharBefore(lowerText, idx) \in WordEndChars

isWordStart(lowerText, idx) == CharBefore(lowerText, idx) \in WordStartChars
isWordEnd(lowerText, idx, kw) == CharAfter(lowerText, idx, kw) \in WordEndChars

\* Mutant of NextStartIndex: the scan resumes one character after the candidate.
NextStartIndexByOne(idx, kw) == idx + 1

\* startIndex = index + keyword.length: where the scan resumes after a candidate.
NextStartIndex(idx, kw) == idx + Len(kw)

\* Mutant of KwicLine: the node is cut out of the lower-cased text.
KwicLineLowerNode(doc, idx, kw, window) ==
    LET start == Max(0, idx - window)
        end == Min(Len(doc.content), idx + Len(kw) + window)
    IN  [left |-> substring(doc.content, start, idx),
         node |-> substring(toLowerCase(doc.content), idx, idx + Len(kw)),
         right |-> substring(doc.content, idx + Len(kw), end),
         docId |-> doc.title]

\* The KwicResult pushed for the match at position idx of doc.
KwicLine(doc, idx, kw, window) ==
    LET start == Max(0, idx - window)
        end == Min(Len(doc.content), idx + Len(kw) + window)
    IN  [left |-> substring(doc.content, start, idx),
         node |-> substring(doc.content, idx, idx + Len(kw)),
         right |-> substring(doc.content, idx + Len(kw), end),
         docId |-> doc.title]

(***************************************************************************)
(* analyzeSentiment                                                        *)
(*                                                                         *)
(* The normalized score is a quotient of two integers; it is kept as the   *)
(* pair <<numerator, denominator>> with a positive denominator, and the    *)
(* score returned, a number with two decimals, as an integer number of     *)
(* hundredths.                                                             *)
(***************************************************************************)
LEXICON_en_pos ==
    { <<"g","o","o","d">>, <<"g","r","e","a","t">>, <<"e","x","c","e","l","l","e","n","t">>,
      <<"a","m","a","z","i","n","g">>, <<"w","o","n","d","e","r","f","u","l">>,
      <<"h","a","p","p","y">>, <<"j","o","y">>, <<"l","o","v","e">>, <<"b","e","s","t">>,
      <<"b","e","a","u","t","i","f","u","l">>, <<"s","u","c","c","e","s","s">>,
      <<"w","i","n">>, <<"p","o","s","i","t","i","v","e">>, <<"p","e","r","f","e","c","t">>,
      <<"b","e","t","t","e","r">>, <<"f","u","n">>, <<"e","n","j","o","y">>,
      <<"g","l","a","d">>, <<"c","o","o","l">>, <<"n","i","c","e">>,
      <<"b","r","i","l","l","i","a","n","t">> }

LEXICON_en_neg ==
    { <<"b","a","d">>, <<"t","e","r","r","i","b","l","e">>, <<"a","w","f","u","l">>,
      <<"w","o","r","s","t">>, <<"h","a","t","e">>, <<"s","a","d">>, <<"a","n","g","r","y">>,
      <<"f","a","i","l">>, <<"n","e","g","a","t","i","v","e">>, <<"w","r","o","n","g">>,
      <<"p","a","i","n">>, <<"u","g","l","y">>, <<"b","o","r","i","n","g">>,
      <<"p","o","o","r">>, <<"b","r","o","k","e","n">>, <<"e","r","r","o","r">>,
      <<"s","t","u","p","i","d">>, <<"d","i","s","a","s","t","e","r">>, <<"f","e","a","r">>,
      <<"h","a","r","d">>, <<"d","i","f","f","i","c","u","l","t">> }

LEXICON_es_pos ==
    { <<"b","u","e","n","o">>, <<"b","i","e","n">>, <<"e","x","c","e","l","e","n","t","e">>,
      <<"i","n","c","r","e","í","b","l","e">>, <<"m","a","r","a","v","i","l","l","o","s","o">>,
      <<"f","e","l","i","z">>, <<"a","l","e","g","r","í","a">>, <<"a","m","o","r">>,
      <<"m","e","j","o","r">>, <<"h","e","r","m","o","s","o">>, <<"é","x","i","t","o">>,
      <<"g","a","n","a","r">>, <<"p","o","s","i","t","i","v","o">>,
      <<"p","e","r","f","e","c","t","o">>, <<"d","i","v","e","r","t","i","d","o">>,
      <<"d","i","s","f","r","u","t","a","r">>, <<"c","o","n","t","e","n","t","o">>,
      <<"g","e","n","i","a","l">>, <<"a","g","r","a","d","a","b","l","e">>,
      <<"b","o","n","i","t","o">>, <<"b","r","i","l","l","a","n","t","e">> }

LEXICON_es_neg ==
    { <<"m","a","l">>, <<"m","a","l","o">>, <<"t","e","r","r","i","b","l","e">>,
      <<"p","e","o","r">>, <<"o","d","i","o">>, <<"t","r","i","s","t","e">>,
      <<"e","n","o","j","a","d","o">>, <<"f","a","l","l","a","r">>,
      <<"n","e","g","a","t","i","v","o">>, <<"e","r","r","o","r">>, <<"d","o","l","o","r">>,
      <<"f","e","o">>, <<"a","b","u","r","r","i","d","o">>, <<"p","o","b","r","e">>,
      <<"r","o","t","o">>, <<"e","s","t","ú","p","i","d","o">>,
      <<"d","e","s","a","s","t","r","e">>, <<"m","i","e","d","o">>,
      <<"d","i","f","í","c","i","l">>, <<"d","u","r","o">>,
      <<"h","o","r","r","i","b","l","e">> }

LEXICON ==
    [en |-> [pos |-> LEXICON_en_pos, neg |-> LEXICON_en_neg],
     es |-> [pos |-> LEXICON_es_pos, neg |-> LEXICON_es_neg]]

LexiconEnglishOnly(lng) == LEXICON.en

\* targetLang and lexicon
LexiconFor(lng) == IF lng = SPANISH THEN LEXICON.es ELSE LEXICON.en

\* tokens.forEach: +1 for a token of the positive list, -1 for one of the negative list
RECURSIVE RawScore(_, _, _)
RawScore(toks, lexicon, i) ==
    IF i > Len(toks) THEN 0
    ELSE (IF toks[i] \in lexicon.pos THEN 1 ELSE 0)
         - (IF toks[i] \in lexicon.neg THEN 1 ELSE 0)
         + RawScore(toks, lexicon, i + 1)

RelevantTokensAll(toks, lexicon) == Len(toks)

RelevantTokens(toks, lexicon) ==
    Len(SelectSeq(toks, LAMBDA t : t \in lexicon.pos \/ t \in lexicon.neg))

NormalizedScore(score, relevantTokens) ==
    IF relevantTokens > 0 THEN <<score, relevantTokens>> ELSE <<0, 1>>

\* normalizedScore > 0.1, normalizedScore < -0.1
SentimentLabel(normalizedScore) ==
    IF 10 * normalizedScore[1] > normalizedScore[2] THEN "Positive"
    ELSE IF 10 * normalizedScore[1] < -normalizedScore[2] THEN "Negative"
    ELSE "Neutral"

ToFixed2Floor(normalizedScore) == (100 * normalizedScore[1]) \div normalizedScore[2]

\* parseFloat(normalizedScore.toFixed(2)), in hundredths: the nearest number with
\* two decimals, on the magnitude, the sign put back. (Of two equally near numbers
\* toFixed takes the larger; a quotient is half-way between two hundredths only
\* if its denominator is a multiple of 8.)
ToFixed2(normalizedScore) ==
    LET num == normalizedScore[1]
        den == normalizedScore[2]
        a   == IF num < 0 THEN -num ELSE num
        q   == (100 * a) \div den
        r   == (100 * a) % den
        h   == IF 2 * r >= den THEN q + 1 ELSE q
    IN  IF num < 0 THEN -h ELSE h

analyzeSentiment(txt, lng) ==
    LET toks    == tokenize(txt, FALSE, ENGLISH)
        lexicon == LexiconFor(lng)
        normalizedScore ==
            NormalizedScore(RawScore(toks, lexicon, 1), RelevantTokens(toks, lexicon))
    IN  IF Len(toks) = 0 THEN [score |-> 0, label |-> "Neutral"]
        ELSE [score |-> ToFixed2(normalizedScore),
              label |-> SentimentLabel(normalizedScore)]

(***************************************************************************)
(* generateNgrams                                                          *)
(***************************************************************************)

\* tokens.slice(a, b), 0-based, b exclusive
slice(toks, a, b) == SubSeq(toks, a + 1, Min(b, Len(toks)))

\* Array.prototype.join
RECURSIVE join(_, _)
join(ws, sep) ==
    IF ws = <<>> THEN <<>>
    ELSE IF Len(ws) = 1 THEN ws[1]
    ELSE ws[1] \o sep \o join(Tail(ws), sep)

NgramLoopBoundShort(toks, n) == Len(toks) - n

\* The bound of the loop: i < tokens.length - n + 1
NgramLoopBound(toks, n) == Len(toks) - n + 1

\* The grams of the windows the loop visits, in order.
NgramKeys(toks, n) ==
    [i \in 1..NgramLoopBound(toks, n) |-> join(slice(toks, i - 1, i - 1 + n), <<" ">>)]

\* The entries before the sort.
NgramEntries(toks, n) ==
    LET frequencyMap == CountInto(<<>>, NgramKeys(toks, n), 1)
        totalNgrams == Len(toks) - n + 1
        entries == ObjectEntries(frequencyMap)
    IN  [k \in 1..Len(entries) |->
            [token |-> entries[k].key,
             count |-> entries[k].value,
             frequency |-> Divide(entries[k].value, totalNgrams)]]

generateNgrams(toks, n) ==
    IF Len(toks) < n THEN {<<>>} ELSE SortOutcomes(NgramEntries(toks, n))

(***************************************************************************)
(* The aggregated POS breakdown of the analysis view                       *)
(*                                                                         *)
(* An optional value (posData of a document, the result that may be null)  *)
(* is a sequence: empty when the value is absent, of one element otherwise.*)
(***************************************************************************)
MANUAL_UPLOAD == "Manual Upload"
GENERATED == "AI Generated (Augmentation)"

\* The fields of a PosBreakdown
PosFields ==
    {"nouns", "verbs", "adjectives", "adverbs", "pronouns", "determiners", "conjunctions",
     "others"}

filteredDocuments(ds, selected) ==
    IF selected = "ALL" THEN ds ELSE SelectSeq(ds, LAMBDA d : d.sourceType = selected)

\* if (doc.posData)
HasPosData(doc) == doc.posData # <<>>

PosCountAll(ds) == Len(ds)

\* count
PosCount(ds) == Len(SelectSeq(ds, HasPosData))

\* total[f] after the documents from the i-th on were visited
RECURSIVE PosTotal(_, _, _)
PosTotal(ds, f, i) ==
    IF i > Len(ds) THEN 0
    ELSE (IF HasPosData(ds[i]) THEN ds[i].posData[1][f] ELSE 0) + PosTotal(ds, f, i + 1)

MathRoundDown(num, den) == num \div den

\* Math.round(num / den), den > 0: the nearest integer, the upper one of two
MathRound(num, den) == (2 * num + den) \div (2 * den)

AggregatePosData(ds) ==
    LET count == PosCount(ds)
    IN  IF count = 0 THEN <<>>
        ELSE <<[f \in PosFields |-> MathRound(PosTotal(ds, f, 1), count)]>>

(***************************************************************************)
(* Ingestion: how a document comes into the document set of the            *)
(* application. A document is reduced to the fields the engine reads, and  *)
(* carries, as a history field, the raw text the external collaborator     *)
(* (file, AI service) delivered.                                           *)
(***************************************************************************)

\* text.split(/\s+/): the pieces between the runs of white space
RECURSIVE SplitOnWhiteSpaceFrom(_, _, _)
SplitOnWhiteSpaceFrom(s, i, piece) ==
    IF i > Len(s) THEN <<piece>>
    ELSE IF IsSpace(s[i])
         THEN <<piece>> \o SplitOnWhiteSpaceFrom(s, i + RunLength(s, i, WhiteSpace), <<>>)
         ELSE SplitOnWhiteSpaceFrom(s, i + 1, Append(piece, s[i]))

spanishWords ==
    { <<"e","l">>, <<"l","a">>, <<"d","e">>, <<"q","u","e">>, <<"y">>, <<"e","n">>,
      <<"u","n">>, <<"s","e","r">>, <<"p","o","r">>, <<"p","a","r","a">> }

englishWords ==
    { <<"t","h","e">>, <<"a","n","d">>, <<"o","f">>, <<"t","o">>, <<"a">>, <<"i","n">>,
      <<"i","s">>, <<"y","o","u">>, <<"t","h","a","t">>, <<"i","t">> }

\* FileUploader.detectLanguage
detectLanguage(txt) ==
    LET toks    == slice(SplitOnWhiteSpaceFrom(toLowerCase(txt), 1, <<>>), 0, 100)
        esCount == Cardinality({k \in 1..Len(toks) : toks[k] \in spanishWords})
        enCount == Cardinality({k \in 1..Len(toks) : toks[k] \in englishWords})
    IN  IF esCount > enCount THEN SPANISH ELSE ENGLISH

TokenCountBySplit(content) == Len(split(content, " "))

\* tokenCount: tokenize(content).length
TokenCount(content) == Len(tokenize(content, FALSE, ENGLISH))

\* A document with the given content, made from the raw text raw.
NewDocument(raw, content, language) ==
    [raw |-> raw, content |-> content, language |-> language,
     tokenCount |-> TokenCount(content)]

\* App.handleUpload: the content handed over is cleaned, whatever the uploader did.
handleUpload(raw, content, lng) == NewDocument(raw, cleanCorpusText(content), lng)

\* A document of the AI service (generateSyntheticCorpusData, simulateClassroomFetch)
\* or of the translator: the text is cleaned once and stored as it is.
ServiceDocument(raw, lng) == NewDocument(raw, cleanCorpusText(raw), lng)

\* The synthetic documents the translator adds after the source and the target
augmentationCount == 4

(***************************************************************************)
(* The type/token ratio                                                    *)
(***************************************************************************)

\* The loop of calculateTypeTokenRatio: allTokens = [...allTokens,
\* ...tokenize(d.content)], with tokenize's default arguments.
RECURSIVE TtrTokens(_, _)
TtrTokens(ds, i) ==
    IF i > Len(ds) THEN <<>>
    ELSE tokenize(ds[i].content, FALSE, ENGLISH) \o TtrTokens(ds, i + 1)

\* new Set(allTokens).size; and a count that takes every token for a type.
SetSizeNoDedupe(toks) == Len(toks)

SetSize(toks) == Cardinality({toks[k] : k \in 1..Len(toks)})

\* The ratio returned, as <<numerator, denominator>>; the number 0 is <<0, 1>>.
calculateTypeTokenRatio(ds) ==
    LET allTokens == TtrTokens(ds, 1)
    IN  IF Len(allTokens) = 0 THEN <<0, 1>>
        ELSE <<SetSize(allTokens), Len(allTokens)>>

(***************************************************************************)
(* The n-gram table of the analysis view                                   *)
(***************************************************************************)

\* The loop of the ngrams memo: allTokens = [...allTokens, ...tokenize(doc.content,
\* removeStopwords, doc.language)] over the filtered documents.
ViewTokensOverwritten(ds, removeStop, i) ==
    IF ds = <<>> THEN <<>>
    ELSE tokenize(ds[Len(ds)].content, removeStop, ds[Len(ds)].language)

RECURSIVE ViewTokens(_, _, _)
ViewTokens(ds, removeStop, i) ==
    IF i > Len(ds) THEN <<>>
    ELSE tokenize(ds[i].content, removeStop, ds[i].language)
         \o ViewTokens(ds, removeStop, i + 1)

\* .slice(0, 100)
NgramTableLimit == 100

\* The table the memo holds, one per order the sort may leave.
ViewNgrams(ds, selected, removeStop, n) ==
    { slice(table, 0, NgramTableLimit)
        : table \in generateNgrams(ViewTokens(filteredDocuments(ds, selected), removeStop, 1), n) }

(***************************************************************************)
(* The AI provider manager: response cache and provider cascade            *)
(*                                                                         *)
(* RESPONSE_CACHE is a Map: a sequence of entries in insertion order. A    *)
(* cache key is the JSON text of {prompt, config}, never the empty string; *)
(* the model writes keys as numbers.                                       *)
(***************************************************************************)
MAX_CACHE_SIZE == 100

MODELS == << "gemini-2.5-flash", "gemini-2.5-flash-lite-preview", "gemini-1.5-flash" >>

LOCAL_MODEL == "llama3"

\* RESPONSE_CACHE.has(key), RESPONSE_CACHE.get(key)
CacheHas(cache, key) == \E k \in 1..Len(cache) : cache[k].key = key

CacheGet(cache, key) == cache[CHOOSE k \in 1..Len(cache) : cache[k].key = key].value

\* RESPONSE_CACHE.set(key, value): a key already present keeps its place.
MapSet(cache, key, value) ==
    IF CacheHas(cache, key)
    THEN [k \in 1..Len(cache) |->
            IF cache[k].key = key THEN [key |-> key, value |-> value] ELSE cache[k]]
    ELSE Append(cache, [key |-> key, value |-> value])

\* RESPONSE_CACHE.size >= MAX_CACHE_SIZE; and the test that lets one entry more in.
CacheOverfull(cache) == Len(cache) > MAX_CACHE_SIZE

CacheFull(cache) == Len(cache) >= MAX_CACHE_SIZE

\* addToCache: a full cache loses its first key (firstKey is a non-empty string,
\* so the delete is always made), then the entry is set.
addToCache(cache, key, value) ==
    MapSet(IF CacheFull(cache) THEN Tail(cache) ELSE cache, key, value)

\* What a rejected generateContent carries: an error whose message names a quota
\* or overload status, one whose message contains "400", one whose message
\* contains "SAFETY", and a thrown value without a message.
NoMessage == "(no message)"
GeminiErrors == {"429", "400", "SAFETY", NoMessage}

\* e.message.includes("400") || e.message.includes("SAFETY"); and a cascade that
\* nothing stops.
StopsCascadeNever(message) == FALSE

StopsCascade(message) == message \in {"400", "SAFETY"}

\* The value generate throws at its end: lastError || new Error("All AI providers
\* ... failed").
AllProvidersFailed == "All AI providers (Cloud & Local) failed"
UltimateError(lastError) == IF lastError = <<>> THEN AllProvidersFailed ELSE lastError[1]

\* A call of generate: where it is, what it tried and what came of it.
NewCall(key, at) ==
    [key |-> key, pc |-> at, modelIdx |-> 1, lastError |-> <<>>, attempts |-> <<>>,
     text |-> "", error |-> ""]

(***************************************************************************)
(* The document set under concurrent ingestion                             *)
(*                                                                         *)
(* setDocuments is always handed an updater function, which React applies  *)
(* to the state left by the updaters queued before it: the model applies   *)
(* each updater when it is queued. A document is reduced to its id, the    *)
(* handler call that made it and its place in that call's batch.           *)
(***************************************************************************)

\* The state an updater starts from: prev, the state it is applied to, and not
\* the state the handler's closure saw when the call began.
UpdaterBaseStale(prev, seen) == seen

UpdaterBase(prev, seen) == prev

\* prev => [...prev, ...newDocs]
AppendUpdater(prev, seen, newDocs) == UpdaterBase(prev, seen) \o newDocs

\* prev => prev.filter(d => d.id !== id)
FilterUpdater(prev, seen, id) == SelectSeq(UpdaterBase(prev, seen), LAMBDA d : d.id # id)

\* The document the call op makes as the n-th of its batch.
MadeDocument(id, op, n) == [id |-> id, op |-> op, n |-> n]

\* A handler call as the log keeps it; id is the id a deletion was asked for.
HandlerCall(kind, id) == [kind |-> kind, id |-> id]

(***************************************************************************)
(* generateKwic as a function: the loops of the concordancer run to their  *)
(* end (they end for every keyword that is not empty)                      *)
(***************************************************************************)

\* The while loop over one document, from the position the scan is at.
RECURSIVE KwicScan(_, _, _, _)
KwicScan(doc, kw, window, from) ==
    LET lowerText == toLowerCase(doc.content)
        idx == indexOf(lowerText, toLowerCase(kw), from)
    IN  IF idx = -1 THEN <<>>
        ELSE (IF isWordStart(lowerText, idx) /\ isWordEnd(lowerText, idx, kw)
              THEN <<KwicLine(doc, idx, kw, window)>>
              ELSE <<>>)
             \o KwicScan(doc, kw, window, NextStartIndex(idx, kw))

\* docs.forEach, from the k-th document on
RECURSIVE generateKwicFrom(_, _, _, _)
generateKwicFrom(ds, kw, window, k) ==
    IF k > Len(ds) THEN <<>>
    ELSE KwicScan(ds[k], kw, window, 0) \o generateKwicFrom(ds, kw, window, k + 1)

generateKwic(ds, kw, window) == generateKwicFrom(ds, kw, window, 1)

(***************************************************************************)
(* What the operations do to the arrays handed to them                     *)
(***************************************************************************)

\* tokens.splice(a, b) would take b elements out of its receiver, from index a on.
ReceiverAfterSplice(arr, a, b) ==
    SubSeq(arr, 1, a) \o SubSeq(arr, Min(a + b, Len(arr)) + 1, Len(arr))

\* tokens.slice(a, b) leaves its receiver as it is.
ReceiverAfterSlice(arr, a, b) == arr

\* The token array after generateNgrams: the loop only calls slice on it.
TokensAfterNgrams(toks, n) ==
    IF Len(toks) < n THEN toks ELSE ReceiverAfterSlice(toks, 0, n)

(***************************************************************************)
(* Bounds and inputs                                                       *)
(***************************************************************************)
MaxFrags == 4       \* fragments a raw text is put together from
MaxPasses == 2      \* successive passes of the normalizer
MaxDocs == 2        \* documents in a document set
MaxLen == 4         \* characters in a KWIC document set, all contents together
MaxKeyLen == 2      \* characters in a KWIC keyword
MaxWords == 3       \* words in a frequency document set, all contents together
MaxTtrDocs == 2     \* documents in a set handed to calculateTypeTokenRatio
MaxTtrWords == 3    \* words in such a set, all contents together

\* All concatenations of at most n fragments of F.
RECURSIVE Texts(_, _)
Texts(F, n) ==
    IF n = 0 THEN {<<>>}
    ELSE LET T == Texts(F, n - 1) IN T \cup {t \o f : t \in T, f \in F}

\* All sequences of k lists over S whose lengths add up to n at most.
RECURSIVE ListSeqs(_, _, _)
ListSeqs(S, k, n) ==
    IF k = 0 THEN {<<>>}
    ELSE UNION { { <<l>> \o rest : l \in [1..m -> S], rest \in ListSeqs(S, k - 1, n - m) }
                 : m \in 0..n }

CleanFragments ==
    { <<"*">>, <<"_">>, <<"#">>, <<" ">>, <<NL>>, <<"a">>, <<"[">>, <<"]">>,
      <<"-">>, <<"D","a","t","e",":">>, <<"w","r","i","t","e"," ","a"," ">> }

TokenizerFragments ==
    { <<" ">>, <<TAB>>, <<NL>>, <<".">>, <<"-">>, <<"a">>, <<"T","h","e">>, <<"n","o">> }

\* Words of the frequency documents: a word with capitals that is an English
\* stopword, a Spanish stopword, the name of an inherited property, two numerals.
Words ==
    { <<"T","h","e">>, <<"n","o">>, <<"c","o","n","s","t","r","u","c","t","o","r">>,
      <<"2">>, <<"1","0">> }

\* Characters of the KWIC documents: a letter, a boundary character on both sides,
\* one that is a boundary only before a word and one only after a word.
KwicChars == {"A", " ", "(", ")"}

KeywordChars == {"a", "A", " "}

WindowSizes == {1, DefaultWindowSize}

RECURSIVE JoinWords(_)
JoinWords(ws) ==
    IF ws = <<>> THEN <<>>
    ELSE IF Len(ws) = 1 THEN ws[1]
    ELSE ws[1] \o <<" ">> \o JoinWords(Tail(ws))

TitleOf(k) == <<"d", "o", "c", Digits[k + 1]>>

\* A CorpusDocument, reduced to the fields the engine reads.
Document(k, content, language) ==
    [title |-> TitleOf(k), content |-> content, language |-> language]

KwicDocSets(maxDocs, maxLen) ==
    UNION { { [k \in 1..n |-> Document(k, ls[k], ENGLISH)] : ls \in ListSeqs(KwicChars, n, maxLen) }
            : n \in 0..maxDocs }

FreqDocSets(maxDocs, maxWords) ==
    UNION { { [k \in 1..n |-> Document(k, JoinWords(ls[k]), langs[k])]
              : ls \in ListSeqs(Words, n, maxWords), langs \in [1..n -> Languages] }
            : n \in 0..maxDocs }

Keywords == UNION { [1..n -> KeywordChars] : n \in 0..MaxKeyLen }

\* The document sets of the type/token ratio: documents of any language made of an
\* ordinary word, the inherited property name and a number.
TtrWords ==
    { <<"T","h","e">>, <<"c","o","n","s","t","r","u","c","t","o","r">>, <<"2">> }

TtrLanguages == {ENGLISH, SPANISH}

TtrDocSets(maxDocs, maxWords) ==
    UNION { { [k \in 1..n |-> Document(k, JoinWords(ls[k]), langs[k])]
              : ls \in ListSeqs(TtrWords, n, maxWords), langs \in [1..n -> TtrLanguages] }
            : n \in 0..maxDocs }

(***************************************************************************)
(* State not used by the operation under study                             *)
(***************************************************************************)
IdleClean == rawText = <<>> /\ cleanOut = <<>>
IdleTokenize == text = <<>> /\ lang = ENGLISH /\ tokens = <<>>
IdleFrequencies == frequencies = <<>>
IdleKwic ==
    /\ keyword = <<>> /\ windowSize = DefaultWindowSize
    /\ results = <<>> /\ matches = <<>>
    /\ docIdx = 1 /\ startIndex = 0 /\ index = -1

IdleSentiment == sentiment = [score |-> 0, label |-> "Neutral"]
IdleNgrams == ngramSize = 2 /\ ngrams = <<>>
IdlePos == selectedSource = "ALL" /\ aggregatedPosData = <<>>
IdleApp == documents = <<>>
IdleTtr == typeTokenRatio = <<0, 1>>
IdleAi == hasApiKey = FALSE /\ responseCache = <<>> /\ calls = <<>>
IdleIngest == inFlight = {} /\ ops = <<>> /\ removed = {}
IdlePure == sortEngine = 1 /\ callLog = <<>>
IdleLate == IdleTtr /\ IdleAi /\ IdleIngest /\ IdlePure
IdleExt == IdleSentiment /\ IdleNgrams /\ IdlePos /\ IdleApp /\ IdleLate

(***************************************************************************)
(* The normalizer applied, and applied again to its own output             *)
(***************************************************************************)
InitClean ==
    /\ pc = "clean"
    /\ rawText \in Texts(CleanFragments, MaxFrags)
    /\ cleanOut = <<>>
    /\ docs = <<>> /\ removeStopwords = FALSE
    /\ IdleTokenize /\ IdleFrequencies /\ IdleKwic /\ IdleExt

CleanPass ==
    /\ pc = "clean"
    /\ Len(cleanOut) < MaxPasses
    /\ cleanOut' = Append(cleanOut,
                     cleanCorpusText(IF cleanOut = <<>> THEN rawText
                                     ELSE cleanOut[Len(cleanOut)]))
    /\ UNCHANGED <<pc, rawText, docs, removeStopwords, tokVars, freqVars, kwicVars, extVars>>

NextClean == CleanPass

SpecClean == InitClean /\ [][NextClean]_vars

(***************************************************************************)
(* The tokenizer                                                           *)
(***************************************************************************)
InitTokenize ==
    /\ pc = "tokenize"
    /\ text \in Texts(TokenizerFragments, MaxFrags)
    /\ lang \in Languages
    /\ removeStopwords \in BOOLEAN
    /\ tokens = <<>>
    /\ docs = <<>>
    /\ IdleClean /\ IdleFrequencies /\ IdleKwic /\ IdleExt

Tokenize ==
    /\ pc = "tokenize"
    /\ tokens' = tokenize(text, removeStopwords, lang)
    /\ pc' = "done"
    /\ UNCHANGED <<text, lang, removeStopwords, docs, cleanVars, freqVars, kwicVars, extVars>>

NextTokenize == Tokenize

SpecTokenize == InitTokenize /\ [][NextTokenize]_vars

(***************************************************************************)
(* The frequency engine                                                    *)
(***************************************************************************)
InitFrequencies ==
    /\ pc = "frequencies"
    /\ docs \in FreqDocSets(MaxDocs, MaxWords)
    /\ removeStopwords \in BOOLEAN
    /\ frequencies = <<>>
    /\ IdleClean /\ IdleTokenize /\ IdleKwic /\ IdleExt

CalculateFrequencies ==
    /\ pc = "frequencies"
    /\ \E sorted \in calculateFrequencies(docs, removeStopwords) : frequencies' = sorted
    /\ pc' = "done"
    /\ UNCHANGED <<docs, removeStopwords, cleanVars, tokVars, kwicVars, extVars>>

NextFrequencies == CalculateFrequencies

SpecFrequencies == InitFrequencies /\ [][NextFrequencies]_vars

(***************************************************************************)
(* The concordancer, one step per document and per iteration of its while  *)
(* loop. matches records, for each result pushed, the document and the     *)
(* position of the match: the result itself carries neither.               *)
(***************************************************************************)
MaxResults == MaxLen + 1

LowerText(k) == toLowerCase(docs[k].content)
NormalizedKeyword == toLowerCase(keyword)

InitKwic ==
    /\ pc = "forEach"
    /\ docs \in KwicDocSets(MaxDocs, MaxLen)
    /\ keyword \in Keywords
    /\ windowSize \in WindowSizes
    /\ results = <<>> /\ matches = <<>>
    /\ docIdx = 1 /\ startIndex = 0 /\ index = -1
    /\ removeStopwords = FALSE
    /\ IdleClean /\ IdleTokenize /\ IdleFrequencies /\ IdleExt

\* docs.forEach enters the next document: the first indexOf.
KwicEnterDoc ==
    /\ pc = "forEach"
    /\ docIdx <= Len(docs)
    /\ startIndex' = 0
    /\ index' = indexOf(LowerText(docIdx), NormalizedKeyword, 0)
    /\ pc' = "while"
    /\ UNCHANGED <<docs, keyword, windowSize, results, matches, docIdx,
                   removeStopwords, cleanVars, tokVars, freqVars, extVars>>

\* One iteration of while (index !== -1).
KwicIterate ==
    /\ pc = "while"
    /\ index # -1
    /\ LET lowerText == LowerText(docIdx)
           accepted == isWordStart(lowerText, index) /\ isWordEnd(lowerText, index, keyword)
       IN  /\ accepted => Len(results) < MaxResults
           /\ results' = IF accepted
                         THEN Append(results, KwicLine(docs[docIdx], index, keyword, windowSize))
                         ELSE results
           /\ matches' = IF accepted
                         THEN Append(matches, [doc |-> docIdx, index |-> index])
                         ELSE matches
           /\ startIndex' = NextStartIndex(index, keyword)
           /\ index' = indexOf(lowerText, NormalizedKeyword, NextStartIndex(index, keyword))
    /\ UNCHANGED <<pc, docs, keyword, windowSize, docIdx,
                   removeStopwords, cleanVars, tokVars, freqVars, extVars>>

\* The loop ends: forEach goes on to the next document.
KwicLeaveDoc ==
    /\ pc = "while"
    /\ index = -1
    /\ docIdx' = docIdx + 1
    /\ pc' = "forEach"
    /\ UNCHANGED <<docs, keyword, windowSize, results, matches, startIndex, index,
                   removeStopwords, cleanVars, tokVars, freqVars, extVars>>

\* return results
KwicReturn ==
    /\ pc = "forEach"
    /\ docIdx > Len(docs)
    /\ pc' = "done"
    /\ UNCHANGED <<docs, keyword, windowSize, results, matches, docIdx, startIndex, index,
                   removeStopwords, cleanVars, tokVars, freqVars, extVars>>

NextKwic == KwicEnterDoc \/ KwicIterate \/ KwicLeaveDoc \/ KwicReturn

SpecKwic == InitKwic /\ [][NextKwic]_vars

(***************************************************************************)
(* The sentiment scorer                                                    *)
(***************************************************************************)
MaxSentWords == 3   \* words in a text handed to analyzeSentiment

\* Words of the scored texts: an English positive word with a capital, an English
\* negative word with punctuation, a Spanish positive and a Spanish negative word,
\* a word of no lexicon.
SentimentWords ==
    { <<"G","o","o","d">>, <<"b","a","d",".">>, <<"b","u","e","n","o">>, <<"m","a","l">>,
      <<"x">> }

SentimentTexts ==
    { JoinWords(ws) : ws \in UNION { [1..m -> SentimentWords] : m \in 0..MaxSentWords } }

InitSentiment ==
    /\ pc = "sentiment"
    /\ text \in SentimentTexts
    /\ lang \in Languages
    /\ tokens = <<>>
    /\ sentiment = [score |-> 0, label |-> "Neutral"]
    /\ docs = <<>> /\ removeStopwords = FALSE
    /\ IdleClean /\ IdleFrequencies /\ IdleKwic /\ IdleNgrams /\ IdlePos /\ IdleApp /\ IdleLate

AnalyzeSentiment ==
    /\ pc = "sentiment"
    /\ sentiment' = analyzeSentiment(text, lang)
    /\ pc' = "done"
    /\ UNCHANGED <<docs, removeStopwords, cleanVars, tokVars, freqVars, kwicVars,
                   ngramVars, posVars, appVars, lateVars>>

NextSentiment == AnalyzeSentiment

SpecSentiment == InitSentiment /\ [][NextSentiment]_vars

(***************************************************************************)
(* The n-gram generator                                                    *)
(***************************************************************************)
MaxNgramTokens == 4   \* tokens in a sequence handed to generateNgrams

\* Tokens of the sequences: two words, a numeral, the name of an inherited property.
NgramWords ==
    { <<"a">>, <<"n","o">>, <<"1","0">>, <<"c","o","n","s","t","r","u","c","t","o","r">> }

\* The sizes the analysis view offers: bigrams and trigrams.
NgramSizes == {2, 3}

InitNgrams ==
    /\ pc = "ngrams"
    /\ tokens \in UNION { [1..m -> NgramWords] : m \in 0..MaxNgramTokens }
    /\ ngramSize \in NgramSizes
    /\ ngrams = <<>>
    /\ text = <<>> /\ lang = ENGLISH
    /\ docs = <<>> /\ removeStopwords = FALSE
    /\ IdleClean /\ IdleFrequencies /\ IdleKwic /\ IdleSentiment /\ IdlePos /\ IdleApp /\ IdleLate

GenerateNgrams ==
    /\ pc = "ngrams"
    /\ ngrams' \in generateNgrams(tokens, ngramSize)
    /\ pc' = "done"
    /\ UNCHANGED <<ngramSize, docs, removeStopwords, cleanVars, tokVars, freqVars, kwicVars,
                   sentVars, posVars, appVars, lateVars>>

NextNgrams == GenerateNgrams

SpecNgrams == InitNgrams /\ [][NextNgrams]_vars

(***************************************************************************)
(* The POS aggregator                                                      *)
(***************************************************************************)
MaxPosDocs == 3   \* documents in a set handed to the POS aggregator

\* Breakdowns attached to the documents: two that add up to 100 and whose averages
\* fall half-way between integers, and one of zeros.
PosBreakdowns ==
    { [nouns |-> 30, verbs |-> 20, adjectives |-> 10, adverbs |-> 10, pronouns |-> 10,
       determiners |-> 10, conjunctions |-> 5, others |-> 5],
      [nouns |-> 25, verbs |-> 21, adjectives |-> 11, adverbs |-> 10, pronouns |-> 9,
       determiners |-> 10, conjunctions |-> 6, others |-> 8],
      [nouns |-> 0, verbs |-> 0, adjectives |-> 0, adverbs |-> 0, pronouns |-> 0,
       determiners |-> 0, conjunctions |-> 0, others |-> 0] }

PosDocuments ==
    { [sourceType |-> st, posData |-> pd] :
        st \in {MANUAL_UPLOAD, GENERATED},
        pd \in {<<>>} \cup {<<b>> : b \in PosBreakdowns} }

InitPos ==
    /\ pc = "aggregate"
    /\ docs \in UNION { [1..m -> PosDocuments] : m \in 0..MaxPosDocs }
    /\ selectedSource \in {"ALL", MANUAL_UPLOAD, GENERATED}
    /\ aggregatedPosData = <<>>
    /\ removeStopwords = FALSE
    /\ IdleClean /\ IdleTokenize /\ IdleFrequencies /\ IdleKwic
    /\ IdleSentiment /\ IdleNgrams /\ IdleApp /\ IdleLate

AggregatedPosData ==
    /\ pc = "aggregate"
    /\ aggregatedPosData' = AggregatePosData(filteredDocuments(docs, selectedSource))
    /\ pc' = "done"
    /\ UNCHANGED <<selectedSource, docs, removeStopwords, cleanVars, tokVars, freqVars,
                   kwicVars, sentVars, ngramVars, appVars, lateVars>>

NextPos == AggregatedPosData

SpecPos == InitPos /\ [][NextPos]_vars

(***************************************************************************)
(* The document set of the application: ingestions and deletions           *)
(***************************************************************************)
MaxDocuments == 2     \* documents in the document set of the application
MaxIngestFrags == 2   \* fragments a text received by an ingestion is put together from
ClassroomCount == 2   \* assignments one classroom import fetches (count, cut down)

\* Fragments of the received texts: markup the normalizer removes in two of its
\* steps, and a word of the Spanish list of detectLanguage.
IngestFragments == { <<"*", "_", "*">>, <<"y", " ">> }

RawTexts == Texts(IngestFragments, MaxIngestFrags)

InitApp ==
    /\ pc = "app"
    /\ documents = <<>>
    /\ docs = <<>> /\ removeStopwords = FALSE
    /\ IdleClean /\ IdleTokenize /\ IdleFrequencies /\ IdleKwic
    /\ IdleSentiment /\ IdleNgrams /\ IdlePos /\ IdleLate

\* FileUploader.handleFileChange, text file: the uploader cleans the text of the
\* file and hands it to handleUpload.
UploadTextFile ==
    /\ pc = "app"
    /\ Len(documents) < MaxDocuments
    /\ \E raw \in RawTexts :
          LET cleaned == cleanCorpusText(raw)
          IN  documents' = Append(documents,
                                  handleUpload(raw, cleaned, detectLanguage(cleaned)))
    /\ UNCHANGED <<pc, docs, removeStopwords, cleanVars, tokVars, freqVars, kwicVars,
                   sentVars, ngramVars, posVars, lateVars>>

\* FileUploader.handleFileChange, audio or video: transcribeMedia returns the cleaned
\* text of the AI response, which is handed to handleUpload.
UploadMedia ==
    /\ pc = "app"
    /\ Len(documents) < MaxDocuments
    /\ \E raw \in RawTexts :
          LET transcript == cleanCorpusText(raw)
          IN  documents' = Append(documents,
                                  handleUpload(raw, transcript, detectLanguage(transcript)))
    /\ UNCHANGED <<pc, docs, removeStopwords, cleanVars, tokVars, freqVars, kwicVars,
                   sentVars, ngramVars, posVars, lateVars>>

\* App.handleClassroomImport: the assignments of simulateClassroomFetch, in English
\* and Spanish by turns, are added together.
HandleClassroomImport ==
    /\ pc = "app"
    /\ Len(documents) + ClassroomCount <= MaxDocuments
    /\ \E raws \in [1..ClassroomCount -> RawTexts] :
          documents' = documents \o
              [i \in 1..ClassroomCount |->
                  ServiceDocument(raws[i], IF (i - 1) % 2 = 0 THEN ENGLISH ELSE SPANISH)]
    /\ UNCHANGED <<pc, docs, removeStopwords, cleanVars, tokVars, freqVars, kwicVars,
                   sentVars, ngramVars, posVars, lateVars>>

\* CorpusBuilder.startBuild, one turn of its loop: a synthetic document is handed
\* to handleAutoGeneratedDocs.
BuilderAdd ==
    /\ pc = "app"
    /\ Len(documents) < MaxDocuments
    /\ \E raw \in RawTexts, currentLang \in {ENGLISH, SPANISH} :
          documents' = Append(documents, ServiceDocument(raw, currentLang))
    /\ UNCHANGED <<pc, docs, removeStopwords, cleanVars, tokVars, freqVars, kwicVars,
                   sentVars, ngramVars, posVars, lateVars>>

\* TranslatorView, corpus registration: the source and the target text, and the
\* synthetic documents fetched before the augmentation loop ended or failed, are
\* handed to handleAutoGeneratedDocs together.
TranslatorRegister ==
    /\ pc = "app"
    /\ Len(documents) + 2 <= MaxDocuments
    /\ \E targetLang \in {ENGLISH, SPANISH},
          j \in 0..Min(augmentationCount, MaxDocuments - Len(documents) - 2) :
          \E raws \in [1..(2 + j) -> RawTexts] :
             LET sourceLang == IF targetLang = SPANISH THEN ENGLISH ELSE SPANISH
             IN  documents' = documents \o
                     [i \in 1..(2 + j) |->
                         ServiceDocument(raws[i], IF i = 2 THEN targetLang ELSE sourceLang)]
    /\ UNCHANGED <<pc, docs, removeStopwords, cleanVars, tokVars, freqVars, kwicVars,
                   sentVars, ngramVars, posVars, lateVars>>

\* App.deleteDocument (ids taken to be unique: the document at one position goes)
DeleteDocument ==
    /\ pc = "app"
    /\ \E k \in 1..Len(documents) :
          documents' = SubSeq(documents, 1, k - 1) \o SubSeq(documents, k + 1, Len(documents))
    /\ UNCHANGED <<pc, docs, removeStopwords, cleanVars, tokVars, freqVars, kwicVars,
                   sentVars, ngramVars, posVars, lateVars>>

NextApp ==
    \/ UploadTextFile
    \/ UploadMedia
    \/ HandleClassroomImport
    \/ BuilderAdd
    \/ TranslatorRegister
    \/ DeleteDocument

SpecApp == InitApp /\ [][NextApp]_vars

(***************************************************************************)
(* The type/token ratio of a document set                                  *)
(***************************************************************************)

InitTtr ==
    /\ pc = "ttr"
    /\ docs \in TtrDocSets(MaxTtrDocs, MaxTtrWords)
    /\ removeStopwords = FALSE
    /\ typeTokenRatio = <<0, 1>>
    /\ IdleClean /\ IdleTokenize /\ IdleFrequencies /\ IdleKwic
    /\ IdleSentiment /\ IdleNgrams /\ IdlePos /\ IdleApp /\ IdleAi /\ IdleIngest /\ IdlePure

CalculateTypeTokenRatio ==
    /\ pc = "ttr"
    /\ typeTokenRatio' = calculateTypeTokenRatio(docs)
    /\ pc' = "done"
    /\ UNCHANGED <<docs, removeStopwords, cleanVars, tokVars, freqVars, kwicVars,
                   sentVars, ngramVars, posVars, appVars, aiVars, ingestVars,
                   pureVars>>

NextTtr == CalculateTypeTokenRatio

SpecTtr == InitTtr /\ [][NextTtr]_vars

(***************************************************************************)
(* The n-gram tab of the analysis view: the memo follows its dependencies  *)
(***************************************************************************)
MaxViewDocs == 2    \* documents handed to the analysis view
MaxViewWords == 3   \* words in these documents, all contents together

\* Words of the documents: one that is no stopword, and a Spanish stopword.
ViewWords == { <<"a">>, <<"n","o">> }

\* Language and source of a document: uploads in both languages, and generated
\* Spanish text.
ViewKinds ==
    { [language |-> ENGLISH, sourceType |-> MANUAL_UPLOAD],
      [language |-> SPANISH, sourceType |-> MANUAL_UPLOAD],
      [language |-> SPANISH, sourceType |-> GENERATED] }

ViewDocSets(maxDocs, maxWords) ==
    UNION { { [k \in 1..n |-> [title |-> TitleOf(k), content |-> JoinWords(ls[k]),
                               language |-> kinds[k].language,
                               sourceType |-> kinds[k].sourceType]]
              : ls \in ListSeqs(ViewWords, n, maxWords), kinds \in [1..n -> ViewKinds] }
            : n \in 0..maxDocs }

\* The first render: all sources, stopwords kept, bigrams.
InitView ==
    /\ pc = "view"
    /\ docs \in ViewDocSets(MaxViewDocs, MaxViewWords)
    /\ selectedSource = "ALL"
    /\ removeStopwords = FALSE
    /\ ngramSize = 2
    /\ ngrams \in ViewNgrams(docs, selectedSource, removeStopwords, ngramSize)
    /\ aggregatedPosData = <<>>
    /\ IdleClean /\ IdleTokenize /\ IdleFrequencies /\ IdleKwic
    /\ IdleSentiment /\ IdleApp /\ IdleLate

\* setNgramSize, and the render that follows
SetNgramSize ==
    /\ pc = "view"
    /\ \E n \in NgramSizes \ {ngramSize} :
          /\ ngramSize' = n
          /\ ngrams' \in ViewNgrams(docs, selectedSource, removeStopwords, n)
    /\ UNCHANGED <<pc, docs, removeStopwords, selectedSource, aggregatedPosData, cleanVars,
                   tokVars, freqVars, kwicVars, sentVars, appVars, lateVars>>

\* setRemoveStopwords, and the render that follows
SetRemoveStopwords ==
    /\ pc = "view"
    /\ removeStopwords' = ~removeStopwords
    /\ ngrams' \in ViewNgrams(docs, selectedSource, ~removeStopwords, ngramSize)
    /\ UNCHANGED <<pc, docs, ngramSize, selectedSource, aggregatedPosData, cleanVars,
                   tokVars, freqVars, kwicVars, sentVars, appVars, lateVars>>

\* setSelectedSource, and the render that follows
SetSelectedSource ==
    /\ pc = "view"
    /\ \E s \in {"ALL", MANUAL_UPLOAD, GENERATED} \ {selectedSource} :
          /\ selectedSource' = s
          /\ ngrams' \in ViewNgrams(docs, s, removeStopwords, ngramSize)
    /\ UNCHANGED <<pc, docs, removeStopwords, ngramSize, aggregatedPosData, cleanVars,
                   tokVars, freqVars, kwicVars, sentVars, appVars, lateVars>>

NextView == SetNgramSize \/ SetRemoveStopwords \/ SetSelectedSource

SpecView == InitView /\ [][NextView]_vars

(***************************************************************************)
(* The sentiment scorer on long texts: many words of the lexicon           *)
(***************************************************************************)
MaxHits == 16   \* words of one polarity in a long text

RECURSIVE Repeat(_, _)
Repeat(w, k) == IF k = 0 THEN <<>> ELSE <<w>> \o Repeat(w, k - 1)

\* A text of p positive words followed by n negative ones.
MixText(p, n) ==
    JoinWords(Repeat(<<"g","o","o","d">>, p) \o Repeat(<<"b","a","d">>, n))

InitSentimentMix ==
    /\ pc = "sentiment"
    /\ \E p, n \in 0..MaxHits : text = MixText(p, n)
    /\ lang \in Languages
    /\ tokens = <<>>
    /\ sentiment = [score |-> 0, label |-> "Neutral"]
    /\ docs = <<>> /\ removeStopwords = FALSE
    /\ IdleClean /\ IdleFrequencies /\ IdleKwic /\ IdleNgrams /\ IdlePos /\ IdleApp /\ IdleLate

SpecSentimentMix == InitSentimentMix /\ [][NextSentiment]_vars

(***************************************************************************)
(* Calls of AIManager.generate, several in flight at once                  *)
(***************************************************************************)
MaxCalls == 2   \* calls of generate in one run

\* Prompts: the oldest key of a filled cache, and one no filled cache holds.
PromptKeys == {1, MAX_CACHE_SIZE + 1}

\* Texts of a Gemini response ("" also stands for a response without text), and
\* the text of the local model.
GeminiTexts == {"", "a"}
LocalText == "l"

\* The cache after n earlier calls with the prompts 1..n, all answered "a".
FilledCache(n) == [k \in 1..n |-> [key |-> k, value |-> "a"]]

InitAi ==
    /\ pc = "ai"
    /\ hasApiKey \in BOOLEAN
    /\ \E n \in {0, MAX_CACHE_SIZE - 1, MAX_CACHE_SIZE} : responseCache = FilledCache(n)
    /\ calls = <<>>
    /\ docs = <<>> /\ removeStopwords = FALSE
    /\ IdleClean /\ IdleTokenize /\ IdleFrequencies /\ IdleKwic
    /\ IdleSentiment /\ IdleNgrams /\ IdlePos /\ IdleApp /\ IdleTtr /\ IdleIngest /\ IdlePure

AiFrame ==
    UNCHANGED <<pc, hasApiKey, docs, removeStopwords, cleanVars, tokVars, freqVars, kwicVars,
                sentVars, ngramVars, posVars, appVars, ttrVars, ingestVars,
                pureVars>>

\* generate, up to its first await: a cache hit returns at once; otherwise the
\* first Gemini model is called, or the local model when there is no client.
Generate ==
    /\ pc = "ai"
    /\ Len(calls) < MaxCalls
    /\ \E key \in PromptKeys :
          calls' = Append(calls,
                     IF CacheHas(responseCache, key)
                     THEN [NewCall(key, "returned") EXCEPT
                              !.text = CacheGet(responseCache, key)]
                     ELSE NewCall(key, IF hasApiKey THEN "gemini" ELSE "local"))
    /\ UNCHANGED responseCache
    /\ AiFrame

\* generateContent of the model in turn resolves: the text is cached and returned.
GeminiSucceeds ==
    /\ pc = "ai"
    /\ \E c \in 1..Len(calls) : \E t \in GeminiTexts :
          /\ calls[c].pc = "gemini"
          /\ responseCache' = addToCache(responseCache, calls[c].key, t)
          /\ calls' = [calls EXCEPT ![c] =
                         [@ EXCEPT !.pc = "returned", !.text = t,
                                   !.attempts = Append(@, <<MODELS[calls[c].modelIdx], "ok">>)]]
    /\ AiFrame

\* generateContent rejects: the catch block. A value without a message makes
\* e.message.includes throw, out of generate.
GeminiFails ==
    /\ pc = "ai"
    /\ \E c \in 1..Len(calls) : \E e \in GeminiErrors :
          /\ calls[c].pc = "gemini"
          /\ calls' = [calls EXCEPT ![c] =
                         [@ EXCEPT
                            !.attempts = Append(@, <<MODELS[calls[c].modelIdx], e>>),
                            !.lastError = <<e>>,
                            !.pc = IF e = NoMessage THEN "thrown"
                                   ELSE IF StopsCascade(e) \/ calls[c].modelIdx = Len(MODELS)
                                        THEN "local"
                                        ELSE "gemini",
                            !.error = IF e = NoMessage THEN "TypeError" ELSE "",
                            !.modelIdx = IF e # NoMessage /\ ~StopsCascade(e)
                                            /\ calls[c].modelIdx < Len(MODELS)
                                         THEN @ + 1 ELSE @]]
    /\ UNCHANGED responseCache
    /\ AiFrame

\* callLocalLLM resolves: its text is returned (and not cached).
LocalSucceeds ==
    /\ pc = "ai"
    /\ \E c \in 1..Len(calls) :
          /\ calls[c].pc = "local"
          /\ calls' = [calls EXCEPT ![c] =
                         [@ EXCEPT !.pc = "returned", !.text = LocalText,
                                   !.attempts = Append(@, <<LOCAL_MODEL, "ok">>)]]
    /\ UNCHANGED responseCache
    /\ AiFrame

\* callLocalLLM rejects ("Local AI failed"): generate throws lastError, or its own
\* error when there is none.
LocalFails ==
    /\ pc = "ai"
    /\ \E c \in 1..Len(calls) :
          /\ calls[c].pc = "local"
          /\ calls' = [calls EXCEPT ![c] =
                         [@ EXCEPT !.pc = "thrown", !.error = UltimateError(calls[c].lastError),
                                   !.attempts = Append(@, <<LOCAL_MODEL, "Local AI failed">>)]]
    /\ UNCHANGED responseCache
    /\ AiFrame

NextAi == Generate \/ GeminiSucceeds \/ GeminiFails \/ LocalSucceeds \/ LocalFails

SpecAi == InitAi /\ [][NextAi]_vars

(***************************************************************************)
(* Uploads in flight, deletions, builder and classroom additions           *)
(***************************************************************************)
MaxOps == 3      \* handler calls in one run

\* Math.random().toString(36).substr(2, 9): two documents may get the same id.
DocIds == {"id1", "id2"}

\* Documents in one batch handed to handleAutoGeneratedDocs: the builder hands over
\* one document, the translator a text and its translation.
BatchSizes == {1, 2}

InitIngest ==
    /\ pc = "ingest"
    /\ documents = <<>>
    /\ inFlight = {}
    /\ ops = <<>>
    /\ removed = {}
    /\ docs = <<>> /\ removeStopwords = FALSE
    /\ IdleClean /\ IdleTokenize /\ IdleFrequencies /\ IdleKwic
    /\ IdleSentiment /\ IdleNgrams /\ IdlePos /\ IdleTtr /\ IdleAi /\ IdlePure

IngestFrame ==
    UNCHANGED <<pc, docs, removeStopwords, cleanVars, tokVars, freqVars, kwicVars,
                sentVars, ngramVars, posVars, ttrVars, aiVars, pureVars>>

\* What a change of the document set took out of it.
TakenOut(before, after) ==
    {before[k] : k \in {j \in 1..Len(before) : \A i \in 1..Len(after) : after[i] # before[j]}}

\* handleUpload of a cleaned content of at most 50 characters: no await, the
\* document is appended during the call.
HandleUploadShort ==
    /\ pc = "ingest"
    /\ Len(ops) < MaxOps
    /\ \E id \in DocIds :
          documents' = AppendUpdater(documents, documents,
                                     <<MadeDocument(id, Len(ops) + 1, 1)>>)
    /\ ops' = Append(ops, HandlerCall("upload", ""))
    /\ UNCHANGED <<inFlight, removed>>
    /\ IngestFrame

\* handleUpload of a longer content, up to await analyzePosDistribution. The
\* folder and spreadsheet importers do not await onUpload: the next call may
\* start at once.
HandleUploadLong ==
    /\ pc = "ingest"
    /\ Len(ops) < MaxOps
    /\ inFlight' = inFlight \cup {[op |-> Len(ops) + 1, kind |-> "upload", seen |-> documents]}
    /\ ops' = Append(ops, HandlerCall("upload", ""))
    /\ UNCHANGED <<documents, removed>>
    /\ IngestFrame

\* analyzePosDistribution settles, in any order among the calls in flight. Resolved
\* or rejected (the catch block leaves posData undefined), the document is made
\* and appended.
PosSettles ==
    /\ pc = "ingest"
    /\ \E f \in inFlight : \E id \in DocIds :
          /\ f.kind = "upload"
          /\ inFlight' = inFlight \ {f}
          /\ documents' = AppendUpdater(documents, f.seen, <<MadeDocument(id, f.op, 1)>>)
    /\ UNCHANGED <<ops, removed>>
    /\ IngestFrame

\* deleteDocument, confirmed
deleteDocument ==
    /\ pc = "ingest"
    /\ Len(ops) < MaxOps
    /\ \E id \in DocIds :
          /\ documents' = FilterUpdater(documents, documents, id)
          /\ ops' = Append(ops, HandlerCall("delete", id))
    /\ removed' = removed \cup TakenOut(documents, documents')
    /\ UNCHANGED inFlight
    /\ IngestFrame

\* handleAutoGeneratedDocs: a batch from the builder or the translator
handleAutoGeneratedDocs ==
    /\ pc = "ingest"
    /\ Len(ops) < MaxOps
    /\ \E m \in BatchSizes : \E ids \in [1..m -> DocIds] :
          documents' = AppendUpdater(documents, documents,
                          [n \in 1..m |-> MadeDocument(ids[n], Len(ops) + 1, n)])
    /\ ops' = Append(ops, HandlerCall("generated", ""))
    /\ UNCHANGED <<inFlight, removed>>
    /\ IngestFrame

\* handleClassroomImport, up to await simulateClassroomFetch
HandleClassroomImportStarts ==
    /\ pc = "ingest"
    /\ Len(ops) < MaxOps
    /\ inFlight' = inFlight \cup {[op |-> Len(ops) + 1, kind |-> "classroom", seen |-> documents]}
    /\ ops' = Append(ops, HandlerCall("classroom", ""))
    /\ UNCHANGED <<documents, removed>>
    /\ IngestFrame

\* simulateClassroomFetch resolves: the fetched documents are appended as one batch.
ClassroomFetched ==
    /\ pc = "ingest"
    /\ \E f \in inFlight : \E ids \in [1..ClassroomCount -> DocIds] :
          /\ f.kind = "classroom"
          /\ inFlight' = inFlight \ {f}
          /\ documents' = AppendUpdater(documents, f.seen,
                             [n \in 1..ClassroomCount |-> MadeDocument(ids[n], f.op, n)])
    /\ UNCHANGED <<ops, removed>>
    /\ IngestFrame

\* simulateClassroomFetch rejects: the catch block, nothing is added.
ClassroomFails ==
    /\ pc = "ingest"
    /\ \E f \in inFlight :
          /\ f.kind = "classroom"
          /\ inFlight' = inFlight \ {f}
    /\ UNCHANGED <<documents, ops, removed>>
    /\ IngestFrame

NextIngest ==
    \/ HandleUploadShort \/ HandleUploadLong \/ PosSettles \/ deleteDocument
    \/ handleAutoGeneratedDocs \/ HandleClassroomImportStarts \/ ClassroomFetched
    \/ ClassroomFails

SpecIngest == InitIngest /\ [][NextIngest]_vars

(***************************************************************************)
(* The core operations called one after another, in any order, on the same *)
(* arguments                                                               *)
(***************************************************************************)
MaxPureCalls == 3   \* calls in one run

\* Document sets: none; a repeated word; a set the comparator of the frequency sort
\* is inconsistent on; two documents of two languages.
PureDocSets ==
    { <<>>,
      << Document(1, JoinWords(<< <<"T","h","e">>, <<"n","o">>, <<"T","h","e">> >>), ENGLISH) >>,
      << Document(1, JoinWords(<< <<"T","h","e">>, <<"T","h","e">>,
                                  <<"c","o","n","s","t","r","u","c","t","o","r">>, <<"2">> >>),
                  ENGLISH) >>,
      << Document(1, JoinWords(<< <<"T","h","e">>, <<"2">> >>), ENGLISH),
         Document(2, JoinWords(<< <<"n","o">>, <<"T","h","e">> >>), SPANISH) >> }

\* Texts: markup the normalizer removes, and words of the lexicon with a stopword.
PureTexts ==
    { <<"*", "_", "*", " ", "a">>,
      JoinWords(<< <<"G","o","o","d">>, <<"b","a","d",".">>, <<"n","o">> >>) }

PureKeyword == <<"t","h","e">>

\* The order the engine's sort leaves when the comparator is inconsistent is
\* implementation-defined: one engine, one order for one input.
EngineOutcome(outcomes) ==
    LET first == CHOOSE x \in outcomes : TRUE
    IN  IF sortEngine = 1 \/ outcomes = {first} THEN first
        ELSE CHOOSE x \in outcomes : x # first

InitPure ==
    /\ pc = "pure"
    /\ sortEngine \in {1, 2}
    /\ docs \in PureDocSets
    /\ text \in PureTexts
    /\ lang \in {ENGLISH, SPANISH}
    /\ removeStopwords \in BOOLEAN
    /\ tokens = AllTokens(docs, FALSE, 1)
    /\ keyword = PureKeyword /\ windowSize = DefaultWindowSize
    /\ ngramSize = 2
    /\ callLog = <<>>
    /\ rawText = <<>> /\ cleanOut = <<>> /\ frequencies = <<>>
    /\ results = <<>> /\ matches = <<>> /\ docIdx = 1 /\ startIndex = 0 /\ index = -1
    /\ ngrams = <<>>
    /\ IdleSentiment /\ IdlePos /\ IdleApp /\ IdleTtr /\ IdleAi /\ IdleIngest

\* What every call leaves alone: everything but the log and the token array.
PureFrame ==
    UNCHANGED <<pc, sortEngine, docs, removeStopwords, cleanVars, text, lang, freqVars,
                kwicVars, sentVars, ngramVars, posVars, appVars, ttrVars, aiVars, ingestVars>>

Logged(op, result) ==
    /\ Len(callLog) < MaxPureCalls
    /\ callLog' = Append(callLog, [op |-> op, result |-> result])

CallCleanCorpusText ==
    /\ pc = "pure"
    /\ Logged("cleanCorpusText", cleanCorpusText(text))
    /\ UNCHANGED tokens
    /\ PureFrame

CallTokenize ==
    /\ pc = "pure"
    /\ Logged("tokenize", tokenize(text, removeStopwords, lang))
    /\ UNCHANGED tokens
    /\ PureFrame

CallCalculateFrequencies ==
    /\ pc = "pure"
    /\ Logged("calculateFrequencies", EngineOutcome(calculateFrequencies(docs, removeStopwords)))
    /\ UNCHANGED tokens
    /\ PureFrame

CallGenerateNgrams ==
    /\ pc = "pure"
    /\ Logged("generateNgrams", EngineOutcome(generateNgrams(tokens, ngramSize)))
    /\ tokens' = TokensAfterNgrams(tokens, ngramSize)
    /\ PureFrame

CallGenerateKwic ==
    /\ pc = "pure"
    /\ Logged("generateKwic", generateKwic(docs, keyword, windowSize))
    /\ UNCHANGED tokens
    /\ PureFrame

CallCalculateTypeTokenRatio ==
    /\ pc = "pure"
    /\ Logged("calculateTypeTokenRatio", calculateTypeTokenRatio(docs))
    /\ UNCHANGED tokens
    /\ PureFrame

CallAnalyzeSentiment ==
    /\ pc = "pure"
    /\ Logged("analyzeSentiment", analyzeSentiment(text, lang))
    /\ UNCHANGED tokens
    /\ PureFrame

NextPure ==
    \/ CallCleanCorpusText \/ CallTokenize \/ CallCalculateFrequencies
    \/ CallGenerateNgrams \/ CallGenerateKwic \/ CallCalculateTypeTokenRatio
    \/ CallAnalyzeSentiment

SpecPure == InitPure /\ [][NextPure]_vars

(***************************************************************************)
(* Properties                                                              *)
(***************************************************************************)

\* C1. Normalizer idempotence: a pass of cleanCorpusText over the output of an
\* earlier pass returns that output unchanged.
C1_NormalizerIdempotent ==
    \A k \in 2..Len(cleanOut) : cleanOut[k] = cleanOut[k - 1]

\* The boundary characters of the specification of the concordancer: before a
\* match, and after it.
BoundaryBefore ==
    {" ", TAB, NL, ".", ",", ";", ":", "¡", "!", "¿", "?", "(", "[", "\"", "'"}
BoundaryAfter ==
    {" ", TAB, NL, ".", ",", ";", ":", "¡", "!", "¿", "?", ")", "]", "'", "\""}

\* The keyword occurs in content c at position i, ignoring case, as a whole word.
WholeWordAt(c, i) ==
    /\ OccursAt(toLowerCase(c), toLowerCase(keyword), i)
    /\ (i = 0 \/ c[i] \in BoundaryBefore)
    /\ (i + Len(keyword) = Len(c) \/ c[i + Len(keyword) + 1] \in BoundaryAfter)

Reported(d, i) == \E k \in 1..Len(matches) : matches[k] = [doc |-> d, index |-> i]

OverlapsEarlierReport(d, i) ==
    \E k \in 1..Len(matches) :
        /\ matches[k].doc = d
        /\ matches[k].index < i
        /\ i < matches[k].index + Len(keyword)

\* C2. KWIC completeness: when generateKwic returns for a non-empty keyword, every
\* whole-word occurrence of the keyword that does not overlap an earlier reported
\* match has a result.
C2_KwicComplete ==
    (pc = "done" /\ keyword # <<>>) =>
        \A d \in 1..Len(docs) : \A i \in 0..Len(docs[d].content) :
            (WholeWordAt(docs[d].content, i) /\ ~OverlapsEarlierReport(d, i))
                => Reported(d, i)

C4_EmptyKeywordReturnsEmpty ==
    keyword = <<>> => (results = <<>> /\ ~(pc = "while" /\ index # -1))

C6_KwicOrdered ==
    pc = "done" =>
        /\ Len(matches) = Len(results)
        /\ \A k \in 1..Len(results) : results[k].docId = docs[matches[k].doc].title
        /\ \A j, k \in 1..Len(results) :
              j < k =>
                 /\ matches[j].doc <= matches[k].doc
                 /\ matches[j].doc = matches[k].doc =>
                       /\ matches[j].index < matches[k].index
                       /\ matches[j].index + Len(keyword) <= matches[k].index

\* C6 witness: generateKwic returned two results of one document and a result of
\* another document.
C6_Witness ==
    /\ pc = "done"
    /\ \E j, k \in 1..Len(results) : j < k /\ matches[j].doc = matches[k].doc
    /\ \E j, k \in 1..Len(results) : results[j].docId # results[k].docId

RECURSIVE SumCounts(_, _)
SumCounts(table, k) ==
    IF k = 0 THEN 0 ELSE SumCounts(table, k - 1) + table[k].count.n

Occurrences(toks, t) == Cardinality({k \in 1..Len(toks) : toks[k] = t})

\* C7. Frequency conservation: the counts of calculateFrequencies(docs, false) are
\* numbers and add up to the number of tokens of the documents.
C7_FrequencyConservation ==
    (pc = "done" /\ ~removeStopwords) =>
        /\ \A k \in 1..Len(frequencies) : IsNumber(frequencies[k].count)
        /\ SumCounts(frequencies, Len(frequencies)) = Len(AllTokens(docs, FALSE, 1))

\* C8. Frequency table correctness: calculateFrequencies returns one entry for each
\* distinct token and no other, its count the number of occurrences of the token
\* in the documents.
C8_FrequencyTable ==
    pc = "done" =>
        LET toks == AllTokens(docs, removeStopwords, 1)
        IN  /\ {frequencies[k].token : k \in 1..Len(frequencies)}
                 = {toks[k] : k \in 1..Len(toks)}
            /\ \A j, k \in 1..Len(frequencies) :
                  frequencies[j].token = frequencies[k].token => j = k
            /\ \A k \in 1..Len(frequencies) :
                  frequencies[k].count = JsNumber(Occurrences(toks, frequencies[k].token))

\* C9. Frequency sort order: each entry's count is a number greater than or equal
\* to the count of the entry after it.
C9_FrequencySorted ==
    pc = "done" =>
        \A k \in 1..Len(frequencies) - 1 :
            /\ IsNumber(frequencies[k].count)
            /\ IsNumber(frequencies[k + 1].count)
            /\ frequencies[k].count.n >= frequencies[k + 1].count.n

IsBlank(s) == \A k \in 1..Len(s) : IsSpace(s[k])

\* C10. Tokenizer on blank input: an empty or white-space-only text has no tokens,
\* and no token is empty or only white space.
C10_BlankTextNoTokens ==
    pc = "done" =>
        /\ IsBlank(text) => tokens = <<>>
        /\ \A k \in 1..Len(tokens) : ~IsBlank(tokens[k])

\* The stopword set the language tag selects: the Spanish set for SPANISH, the
\* English set for ENGLISH and for UNKNOWN.
SelectedStopwords ==
    CASE lang = SPANISH -> STOPWORDS_ES
      [] lang = ENGLISH -> STOPWORDS_EN
      [] lang = UNKNOWN -> STOPWORDS_EN

\* C11. Tokenizer stopword filtering: with stopword removal the tokens are those
\* returned without it, less exactly the members of the selected stopword set, in
\* the same relative order.
C11_StopwordFiltering ==
    (pc = "done" /\ removeStopwords) =>
        tokens = SelectSeq(tokenize(text, FALSE, lang),
                           LAMBDA t : t \notin SelectedStopwords)

\* An UNKNOWN text with the English stopword "the" removed and the Spanish
\* stopword "no" kept.
C11_Witness ==
    /\ pc = "done" /\ removeStopwords /\ lang = UNKNOWN
    /\ \E k \in 1..Len(tokenize(text, FALSE, lang)) :
           tokenize(text, FALSE, lang)[k] = <<"t", "h", "e">>
    /\ tokens # <<>>
    /\ \A k \in 1..Len(tokens) : tokens[k] = <<"n", "o">>

\* The lexicon the language tag selects, and the numbers of tokens of the scored
\* text found in its positive and in its negative list.
SelectedLexicon ==
    CASE lang = SPANISH -> [pos |-> LEXICON_es_pos, neg |-> LEXICON_es_neg]
      [] lang = ENGLISH -> [pos |-> LEXICON_en_pos, neg |-> LEXICON_en_neg]
      [] lang = UNKNOWN -> [pos |-> LEXICON_en_pos, neg |-> LEXICON_en_neg]

ScoredTokens == tokenize(text, FALSE, lang)

PositiveHits == Cardinality({k \in 1..Len(ScoredTokens) : ScoredTokens[k] \in SelectedLexicon.pos})

NegativeHits == Cardinality({k \in 1..Len(ScoredTokens) : ScoredTokens[k] \in SelectedLexicon.neg})

\* C12. Sentiment score: the score is (p - n)/(p + n) rounded to two decimals (no
\* number of hundredths is nearer to the quotient), 0 when p + n = 0, and lies
\* in [-1, 1].
C12_SentimentScore ==
    pc = "done" =>
        LET p == PositiveHits
            n == NegativeHits
            d == 100 * (p - n) - sentiment.score * (p + n)
        IN  /\ p + n = 0 => sentiment.score = 0
            /\ p + n > 0 => 2 * (IF d < 0 THEN -d ELSE d) <= p + n
            /\ sentiment.score \in -100..100

\* A text with one positive and two negative words: score -0.33.
C12_Witness ==
    /\ pc = "done" /\ PositiveHits = 1 /\ NegativeHits = 2
    /\ sentiment.score = -33

\* C13. Sentiment boundary: a text none of whose tokens is in the selected lexicon
\* is scored 0 and labelled Neutral, whatever the language.
C13_SentimentBoundary ==
    (pc = "done" /\ PositiveHits + NegativeHits = 0) =>
        sentiment = [score |-> 0, label |-> "Neutral"]

\* A Spanish text made of words of the English lexicon only.
C13_Witness ==
    /\ pc = "done" /\ lang = SPANISH
    /\ PositiveHits + NegativeHits = 0
    /\ \E k \in 1..Len(ScoredTokens) : ScoredTokens[k] \in LEXICON_en_pos
    /\ sentiment = [score |-> 0, label |-> "Neutral"]

\* C14. Sentiment symmetry: positive words and no negative word score 1.0 and
\* Positive, negative words and no positive word score -1.0 and Negative, whatever
\* other words the text has.
C14_SentimentSymmetry ==
    pc = "done" =>
        /\ (PositiveHits >= 1 /\ NegativeHits = 0) =>
               sentiment = [score |-> 100, label |-> "Positive"]
        /\ (NegativeHits >= 1 /\ PositiveHits = 0) =>
               sentiment = [score |-> -100, label |-> "Negative"]

\* Two negative words and a word of no lexicon.
C14_Witness ==
    /\ pc = "done" /\ NegativeHits = 2 /\ PositiveHits = 0 /\ Len(ScoredTokens) = 3
    /\ sentiment = [score |-> -100, label |-> "Negative"]

\* C15. Sentiment deadband: a text with exactly one lexicon word is labelled as the
\* text without that word is, Neutral.
C15_DeadbandSingleMatch ==
    (pc = "done" /\ PositiveHits + NegativeHits = 1) => sentiment.label = "Neutral"

\* The windows of ngramSize consecutive tokens, each joined by single spaces.
NgramWindows ==
    { JoinWords(SubSeq(tokens, i, i + ngramSize - 1)) : i \in 1..(Len(tokens) - ngramSize + 1) }

\* C16. N-gram counting: one entry per distinct window of n consecutive tokens, the
\* counts are numbers that sum to max(0, len(tokens) - n + 1), the entries are in
\* non-increasing order of count, and there is no entry when len(tokens) < n (one
\* entry of count 1 when len(tokens) = n).
C16_NgramCounting ==
    pc = "done" =>
        /\ {ngrams[k].token : k \in 1..Len(ngrams)} = NgramWindows
        /\ Len(ngrams) = Cardinality(NgramWindows)
        /\ \A k \in 1..Len(ngrams) : IsNumber(ngrams[k].count)
        /\ SumCounts(ngrams, Len(ngrams)) = Max(0, Len(tokens) - ngramSize + 1)
        /\ \A k \in 1..(Len(ngrams) - 1) : ngrams[k].count.n >= ngrams[k + 1].count.n
        /\ Len(tokens) < ngramSize => ngrams = <<>>
        /\ Len(tokens) = ngramSize => (Len(ngrams) = 1 /\ ngrams[1].count = JsNumber(1))

\* Four tokens, bigrams: a window seen twice, sorted before the one seen once and
\* first.
C16_Witness ==
    /\ pc = "done" /\ ngramSize = 2 /\ Len(tokens) = 4
    /\ Len(ngrams) = 2
    /\ ngrams[1].count = JsNumber(2) /\ ngrams[2].count = JsNumber(1)
    /\ ngrams[2].token = JoinWords(SubSeq(tokens, 1, 2))

\* The documents of the filtered set that carry posData (by position in the set).
Qualifying ==
    { k \in 1..Len(docs) :
        /\ selectedSource = "ALL" \/ docs[k].sourceType = selectedSource
        /\ docs[k].posData # <<>> }

RECURSIVE SumOver(_, _)
SumOver(S, f) ==
    IF S = {} THEN 0
    ELSE LET k == CHOOSE x \in S : TRUE
         IN  docs[k].posData[1][f] + SumOver(S \ {k}, f)

\* C17. POS aggregation absence: the aggregated breakdown is null exactly when no
\* document of the filtered set carries posData.
C17_PosAbsence ==
    pc = "done" => (aggregatedPosData = <<>> <=> Qualifying = {})

\* A set of documents none of which passes the filter with posData, while a
\* document outside the filter has posData.
C17_Witness ==
    /\ pc = "done" /\ aggregatedPosData = <<>>
    /\ \E k \in 1..Len(docs) : docs[k].sourceType = selectedSource
    /\ \E k \in 1..Len(docs) : docs[k].posData # <<>>

\* C18. POS aggregation value: each aggregated field is the sum of the field over
\* the qualifying documents divided by their number and rounded to a nearest
\* integer, so it lies between the least and the greatest value of the field.
C18_PosValue ==
    (pc = "done" /\ Qualifying # {}) =>
        /\ Len(aggregatedPosData) = 1
        /\ \A f \in PosFields :
              LET r == aggregatedPosData[1][f]
                  c == Cardinality(Qualifying)
                  d == 2 * (SumOver(Qualifying, f) - r * c)
              IN  /\ (IF d < 0 THEN -d ELSE d) <= c
                  /\ \E k \in Qualifying : docs[k].posData[1][f] <= r
                  /\ \E k \in Qualifying : docs[k].posData[1][f] >= r

\* Two qualifying documents whose fields add up to 100 each, and one without
\* posData: the aggregated fields add up to 103.
C18_Witness ==
    /\ pc = "done" /\ Len(docs) = 3 /\ Cardinality(Qualifying) = 2
    /\ aggregatedPosData # <<>>
    /\ aggregatedPosData[1].nouns = 28
    /\ aggregatedPosData[1].nouns + aggregatedPosData[1].verbs
       + aggregatedPosData[1].adjectives + aggregatedPosData[1].adverbs
       + aggregatedPosData[1].pronouns + aggregatedPosData[1].determiners
       + aggregatedPosData[1].conjunctions + aggregatedPosData[1].others = 103

RECURSIVE SumTokenCount(_)
SumTokenCount(ds) ==
    IF ds = <<>> THEN 0 ELSE ds[1].tokenCount + SumTokenCount(Tail(ds))

\* C19. tokenCount invariant: after any ingestions and deletions every document's
\* tokenCount is the number of tokens of its content (no stopword removal, its own
\* language), and the sum of the tokenCounts is the total of calculateFrequencies.
C19_TokenCount ==
    /\ \A k \in 1..Len(documents) :
          documents[k].tokenCount
              = Len(tokenize(documents[k].content, FALSE, documents[k].language))
    /\ SumTokenCount(documents) = Len(AllTokens(documents, FALSE, 1))

\* A Spanish document of two tokens and an English one of one token whose content
\* has a character the tokenizer removes.
C19_Witness ==
    /\ Len(documents) = 2
    /\ \E k \in 1..2 : documents[k].language = SPANISH /\ documents[k].tokenCount = 2
    /\ \E k \in 1..2 :
          /\ documents[k].language = ENGLISH /\ documents[k].tokenCount = 1
          /\ Len(documents[k].content) > 1

\* C20. Ingestion normalisation: the content of every document is the normalizer's
\* output on the raw text received, one application of cleanCorpusText.
C20_IngestionNormalised ==
    \A k \in 1..Len(documents) :
        documents[k].content = cleanCorpusText(documents[k].raw)

\* Where a text holds three newlines in a row, and the bold delimiter.
HasNewlineRun(s) == \E k \in 1..Len(s) - 2 : s[k] = NL /\ s[k + 1] = NL /\ s[k + 2] = NL
HasBoldDelimiter(s) == \E k \in 1..Len(s) - 1 : s[k] = "*" /\ s[k + 1] = "*"

\* C25. Normalizer postcondition: the output of cleanCorpusText holds no "**", no
\* underscore, no run of three or more newlines, and no leading or trailing
\* white space, whatever the input.
C25_NormalizerPostcondition ==
    Len(cleanOut) >= 1 =>
        LET out == cleanOut[1]
        IN  /\ ~HasBoldDelimiter(out)
            /\ \A k \in 1..Len(out) : out[k] # "_"
            /\ ~HasNewlineRun(out)
            /\ out # <<>> => (~IsSpace(out[1]) /\ ~IsSpace(out[Len(out)]))

\* The position at which a token is first seen in a token sequence (0 if never).
FirstSeen(toks, t) ==
    IF \E k \in 1..Len(toks) : toks[k] = t
    THEN CHOOSE k \in 1..Len(toks) : toks[k] = t /\ \A j \in 1..(k - 1) : toks[j] # t
    ELSE 0

\* C24. Frequency tie-break: entries with equal count appear in the order in
\* which their tokens were first seen while scanning the documents in set order,
\* for every token, purely numeric ones included.
C24_TieBreakFirstSeen ==
    pc = "done" =>
        LET toks == AllTokens(docs, removeStopwords, 1)
        IN  \A i, j \in 1..Len(frequencies) :
                (i < j /\ frequencies[i].count = frequencies[j].count)
                    => FirstSeen(toks, frequencies[i].token) < FirstSeen(toks, frequencies[j].token)

\* The stopword set that goes with a document's own language.
DocumentStopwords(d) ==
    CASE d.language = SPANISH -> STOPWORDS_ES
      [] d.language = ENGLISH -> STOPWORDS_EN
      [] d.language = UNKNOWN -> STOPWORDS_EN

\* The occurrences of token t that count, over the documents from the i-th on:
\* those in documents whose own stopword set does not hold t.
RECURSIVE CountedOccurrences(_, _, _)
CountedOccurrences(ds, t, i) ==
    IF i > Len(ds) THEN 0
    ELSE (IF t \in DocumentStopwords(ds[i]) THEN 0
          ELSE Occurrences(tokenize(ds[i].content, FALSE, ds[i].language), t))
         + CountedOccurrences(ds, t, i + 1)

\* The tokens that remain, over the documents from the i-th on, after each
\* document's tokens lost the stopwords of that document's language.
RECURSIVE RemainingTokens(_, _)
RemainingTokens(ds, i) ==
    IF i > Len(ds) THEN 0
    ELSE Len(SelectSeq(tokenize(ds[i].content, FALSE, ds[i].language),
                       LAMBDA t : t \notin DocumentStopwords(ds[i])))
         + RemainingTokens(ds, i + 1)

\* C23. Per-document stopword language: with stopword removal, an occurrence of a
\* token in a document is counted exactly when the token is not a stopword of
\* that document's own language, and the frequency denominator is the number of
\* tokens that remain after this filtering.
C23_PerDocumentStopwords ==
    (pc = "done" /\ removeStopwords) =>
        LET all == AllTokens(docs, FALSE, 1)
        IN  /\ \A k \in 1..Len(all) :
                  CountedOccurrences(docs, all[k], 1) > 0
                      => \E e \in 1..Len(frequencies) : frequencies[e].token = all[k]
            /\ \A e \in 1..Len(frequencies) :
                  /\ frequencies[e].count
                        = JsNumber(CountedOccurrences(docs, frequencies[e].token, 1))
                  /\ frequencies[e].count.n > 0
                  /\ frequencies[e].frequency
                        = <<"ratio", frequencies[e].count.n, RemainingTokens(docs, 1)>>

\* The total number of tokens of the documents from the i-th on, each tokenized
\* without stopword removal.
RECURSIVE TotalTokens(_, _)
TotalTokens(ds, i) ==
    IF i > Len(ds) THEN 0
    ELSE Len(tokenize(ds[i].content, FALSE, ds[i].language)) + TotalTokens(ds, i + 1)

\* The distinct tokens of the whole set.
DistinctTokens(ds) ==
    UNION { LET toks == tokenize(ds[i].content, FALSE, ds[i].language)
            IN  {toks[k] : k \in 1..Len(toks)} : i \in 1..Len(ds) }

\* C22. Type/token ratio: 0 when the set is empty or yields no tokens, otherwise
\* U/T with T the total number of tokens and U the number of distinct tokens,
\* so that 0 < U <= T, and U is the number of entries of
\* calculateFrequencies(docs, false).
C22_TypeTokenRatio ==
    pc = "done" =>
        LET T == TotalTokens(docs, 1)
            U == Cardinality(DistinctTokens(docs))
        IN  /\ T = 0 => typeTokenRatio = <<0, 1>>
            /\ T > 0 => /\ typeTokenRatio = <<U, T>>
                        /\ 0 < U /\ U <= T
                        /\ \A table \in calculateFrequencies(docs, FALSE) : Len(table) = U

\* Two documents sharing a token, one of them the inherited name: three tokens,
\* two types.
C22_Witness ==
    /\ pc = "done"
    /\ Len(docs) = 2
    /\ typeTokenRatio = <<2, 3>>
    /\ <<"c","o","n","s","t","r","u","c","t","o","r">> \in DistinctTokens(docs)

\* The documents the view shows, and their token sequences laid end to end.
ShownDocuments ==
    SelectSeq(docs, LAMBDA d : selectedSource = "ALL" \/ d.sourceType = selectedSource)

ShownTokenSeq(k) ==
    tokenize(ShownDocuments[k].content, removeStopwords, ShownDocuments[k].language)

RECURSIVE ShownConcatenation(_)
ShownConcatenation(k) ==
    IF k = 0 THEN <<>> ELSE ShownConcatenation(k - 1) \o ShownTokenSeq(k)

\* The number of windows of the concatenation that read as the n-gram g.
WindowsReading(g) ==
    LET all == ShownConcatenation(Len(ShownDocuments))
    IN  Cardinality({ i \in 1..(Len(all) - ngramSize + 1)
                        : JoinWords(SubSeq(all, i, i + ngramSize - 1)) = g })

\* C30. N-gram table of the analysis view: the n-grams are those of the one
\* concatenation of the shown documents' token sequences in document order; with
\* T tokens in all, the counts (of a table short of the 100-entry cut) sum to
\* max(0, T - n + 1), windows across a document boundary included.
C30_ViewNgrams ==
    Len(ngrams) < NgramTableLimit =>
        LET all == ShownConcatenation(Len(ShownDocuments))
            T == Len(all)
        IN  /\ \A k \in 1..Len(ngrams) : IsNumber(ngrams[k].count)
            /\ SumCounts(ngrams, Len(ngrams)) = Max(0, T - ngramSize + 1)
            /\ \A i \in 1..(T - ngramSize + 1) :
                  \E k \in 1..Len(ngrams) :
                      ngrams[k].token = JoinWords(SubSeq(all, i, i + ngramSize - 1))
            /\ \A k \in 1..Len(ngrams) :
                  ngrams[k].count.n = WindowsReading(ngrams[k].token)

\* Two shown documents of one token each, after a change of the source filter and
\* of the stopword switch: the only bigram is the window across their boundary.
C30_Witness ==
    /\ selectedSource # "ALL" /\ removeStopwords
    /\ Len(docs) = 2 /\ Len(ShownDocuments) = 2
    /\ Len(ShownTokenSeq(1)) = 1 /\ Len(ShownTokenSeq(2)) = 1
    /\ ngramSize = 2
    /\ Len(ngrams) = 1 /\ ngrams[1].count = JsNumber(1)

\* C26. Sentiment label agrees with the returned score: the label is Positive
\* exactly when the returned two-decimal score (here in hundredths) is above 0.1,
\* Negative exactly when it is below -0.1, Neutral otherwise.
C26_LabelAgreesWithScore ==
    pc = "done" =>
        /\ sentiment.label = "Positive" <=> sentiment.score > 10
        /\ sentiment.label = "Negative" <=> sentiment.score < -10
        /\ sentiment.label = "Neutral" <=> (sentiment.score >= -10 /\ sentiment.score <= 10)

\* The keys of a cache in its order, and as a set.
KeySeq(cache) == [k \in 1..Len(cache) |-> cache[k].key]
KeySet(cache) == {cache[k].key : k \in 1..Len(cache)}

\* What one step may do to the cache: nothing; or, the cache not being full, set
\* one key (a new one at the end, a present one in place); or, the cache being
\* full, drop exactly the oldest entry and then set one key.
CacheStepAllowed ==
    LET kept == IF Len(responseCache) >= MAX_CACHE_SIZE THEN Tail(responseCache)
                ELSE responseCache
    IN  \/ responseCache' = responseCache
        \/ /\ KeySeq(responseCache') = KeySeq(kept)
           /\ Cardinality({k \in 1..Len(kept) : responseCache'[k] # kept[k]}) <= 1
        \/ /\ Len(responseCache') = Len(kept) + 1
           /\ SubSeq(responseCache', 1, Len(kept)) = kept
           /\ responseCache'[Len(responseCache')].key \notin KeySet(kept)

\* What a step that makes a call does when the key of the call is in the cache:
\* the call has returned the cached text, no provider was called, and the cache
\* is as it was.
CacheHitServed ==
    Len(calls') = Len(calls) + 1 =>
        LET call == calls'[Len(calls')]
        IN  \A k \in 1..Len(responseCache) :
                responseCache[k].key = call.key
                    => /\ call.pc = "returned"
                       /\ call.attempts = <<>>
                       /\ call.text = responseCache[k].value
                       /\ responseCache' = responseCache

\* A call that has returned or thrown calls nothing any more.
FinishedCallsRest ==
    \A c \in 1..Len(calls) :
        calls[c].pc \in {"returned", "thrown"} => calls'[c] = calls[c]

\* C27. AI response cache bound: RESPONSE_CACHE never holds more than
\* MAX_CACHE_SIZE entries; an insertion that finds the cache full evicts exactly
\* the oldest-inserted key; and a call whose key is in the cache returns the
\* cached text without calling any provider.
C27_CacheBound ==
    /\ [](Len(responseCache) <= MAX_CACHE_SIZE)
    /\ [][CacheStepAllowed /\ CacheHitServed /\ FinishedCallsRest]_vars

\* A full cache whose two oldest entries were evicted by two insertions, the second
\* call having been served from the cache after the first inserted its key.
C27_Witness ==
    /\ Len(responseCache) = MAX_CACHE_SIZE
    /\ responseCache[1].key = 2
    /\ Len(calls) = 2
    /\ calls[1].key = MAX_CACHE_SIZE + 1 /\ calls[1].attempts # <<>> /\ calls[1].pc = "returned"
    /\ calls[2].key = MAX_CACHE_SIZE + 1 /\ calls[2].attempts = <<>> /\ calls[2].pc = "returned"
    /\ calls[2].text = calls[1].text

\* The attempts of a call made to Gemini models, and those made to the local model.
GeminiAttempts(call) == SelectSeq(call.attempts, LAMBDA a : a[1] # LOCAL_MODEL)
LocalAttempts(call) == SelectSeq(call.attempts, LAMBDA a : a[1] = LOCAL_MODEL)

\* C28. AI provider cascade order: on a cache miss the Gemini models are called in
\* the order of MODELS, the next only after the previous failed; after a failure
\* whose message contains "400" or "SAFETY" no further Gemini model is called; the
\* local model is called only after the Gemini cascade ended without a success (or
\* without an API key); the first success ends the call; and generate throws only
\* when every provider it attempted has failed.
C28_CascadeOrder ==
    \A c \in 1..Len(calls) :
        LET call    == calls[c]
            gemini  == GeminiAttempts(call)
            local   == LocalAttempts(call)
            waiting == call.pc = "gemini"
            atLocal == call.pc = "local" \/ local # <<>>
            n       == Len(call.attempts)
        IN  /\ ~hasApiKey => (gemini = <<>> /\ ~waiting)
            /\ call.attempts = gemini \o local
            /\ Len(gemini) <= Len(MODELS) /\ Len(local) <= 1
            /\ \A i \in 1..Len(gemini) : gemini[i][1] = MODELS[i]
            /\ waiting => (Len(gemini) < Len(MODELS) /\ call.modelIdx = Len(gemini) + 1)
            /\ \A i \in 1..Len(gemini) :
                  (i < Len(gemini) \/ waiting \/ atLocal) => gemini[i][2] \in GeminiErrors
            /\ \A i \in 1..Len(gemini) :
                  gemini[i][2] \in {"400", "SAFETY"} => (i = Len(gemini) /\ ~waiting)
            /\ atLocal =>
                  \/ ~hasApiKey
                  \/ /\ gemini # <<>>
                     /\ gemini[Len(gemini)][2] \in GeminiErrors
                     /\ \/ Len(gemini) = Len(MODELS)
                        \/ gemini[Len(gemini)][2] \in {"400", "SAFETY"}
            /\ \A i \in 1..n :
                  call.attempts[i][2] = "ok" => (i = n /\ call.pc = "returned")
            /\ call.pc = "thrown" =>
                  (n >= 1 /\ \A i \in 1..n : call.attempts[i][2] # "ok")
            /\ (call.pc = "returned" /\ n >= 1) => call.attempts[n][2] = "ok"

\* A call that went through a quota failure of the first model and a safety block
\* of the second to the local model, which answered; and one that tried all three
\* Gemini models and the local model, and threw the last Gemini error.
C28_Witness ==
    /\ hasApiKey
    /\ Len(calls) = 2
    /\ calls[1].attempts = << <<MODELS[1], "429">>, <<MODELS[2], "SAFETY">>, <<LOCAL_MODEL, "ok">> >>
    /\ calls[1].pc = "returned"
    /\ Len(calls[2].attempts) = 4
    /\ calls[2].pc = "thrown" /\ calls[2].error = "429"

\* The documents a handler call made, wherever they are now, and the number of
\* places a document is in: the document set (once per position) and what
\* deletions took out.
MadeBy(o) == {d \in {documents[k] : k \in 1..Len(documents)} \cup removed : d.op = o}

PlacesOf(d) ==
    Cardinality({k \in 1..Len(documents) : documents[k] = d})
    + (IF d \in removed THEN 1 ELSE 0)

\* Nothing is lost or duplicated: every document made is in exactly one place; a
\* finished handleUpload made exactly one document, one still awaiting its POS
\* analysis none; a batch is there as a whole; a deletion took out documents of
\* the id it was asked for only.
NothingLostOrDuplicated ==
    /\ \A o \in 1..Len(ops) :
          LET made == MadeBy(o)
              waiting == \E f \in inFlight : f.op = o
          IN  /\ \A d \in made : PlacesOf(d) = 1
              /\ waiting => made = {}
              /\ (ops[o].kind = "upload" /\ ~waiting) => Cardinality(made) = 1
              /\ ops[o].kind = "delete" => made = {}
              /\ ops[o].kind = "generated" =>
                    \E m \in BatchSizes :
                        /\ Cardinality(made) = m
                        /\ {d.n : d \in made} = 1..m
              /\ (ops[o].kind = "classroom" /\ made # {}) =>
                    /\ Cardinality(made) = ClassroomCount
                    /\ {d.n : d \in made} = 1..ClassroomCount
    /\ \A d \in removed :
          /\ d.op \in 1..Len(ops)
          /\ \E o \in 1..Len(ops) : ops[o].kind = "delete" /\ ops[o].id = d.id

\* What a step does to the document set: a deletion takes out exactly the
\* documents with its id and leaves the others in their order; every other step
\* leaves the old documents in place and in order, new ones coming behind them.
DocumentStepAllowed ==
    IF Len(ops') > Len(ops) /\ ops'[Len(ops')].kind = "delete"
    THEN LET id == ops'[Len(ops')].id
         IN  /\ \A k \in 1..Len(documents') : documents'[k].id # id
             /\ documents' = SelectSeq(documents, LAMBDA d : d.id # id)
    ELSE /\ Len(documents') >= Len(documents)
         /\ SubSeq(documents', 1, Len(documents)) = documents

\* C29. Concurrent ingestion loses nothing: with several handleUpload calls in
\* flight, their POS analyses settling in any order, and deletions and batch
\* additions in between, every handleUpload appends exactly one document, no
\* document is lost or duplicated, and deleteDocument(id) removes exactly the
\* documents with that id, the others keeping their order.
C29_ConcurrentIngestion ==
    /\ []NothingLostOrDuplicated
    /\ [][DocumentStepAllowed]_vars

\* An upload in flight while a batch of two was added and one of the two deleted;
\* the upload's document arrived last and stands behind the one that stayed.
C29_Witness ==
    /\ Len(ops) = 3
    /\ ops[1].kind = "upload" /\ ops[2].kind = "generated" /\ ops[3].kind = "delete"
    /\ inFlight = {}
    /\ Len(documents) = 2
    /\ documents[1].op = 2 /\ documents[2].op = 1
    /\ Cardinality(removed) = 1

====
